---- MODULE Spec2Model ----
(***************************************************************************)
(* flower-cache: a content-addressed blob caching proxy.                   *)
(*                                                                         *)
(* The model covers the blob request handler (handler.ts), the in-flight   *)
(* request queue (request-queue.ts), the hash + cache stream pipeline      *)
(* (stream-utils.ts, hash-stream.ts, cache-stream.ts), the cache store and *)
(* its metadata (cache.ts), the upload handler (upload.ts) and the         *)
(* response helpers (response.ts).                                         *)
(*                                                                         *)
(* A blob is a sequence of bytes; the upstream body of a fetch arrives one *)
(* byte per chunk.  SHA-256 is modelled by an injective fold over the      *)
(* bytes, computed incrementally as Bun.CryptoHasher does.                 *)
(***************************************************************************)
EXTENDS Integers, Sequences, FiniteSets, TLC

(***************************************************************************)
(* Bounds of the model.                                                    *)
(***************************************************************************)
MaxReqs == 2
MaxFetches == 2
MaxUploads == 1
MaxByte == 2

Bytes == 1..MaxByte

(***************************************************************************)
(* SHA-256 (Bun.CryptoHasher("sha256")): update() per chunk, digest() at   *)
(* the end.  Byte 0 is a hole of a sparse file; it is hashed like any byte.*)
(***************************************************************************)
HashUpdate(h, chunk) == h * (MaxByte + 2) + chunk + 1

RECURSIVE HashOf(_)
HashOf(s) ==
  IF s = <<>> THEN 0
  ELSE HashUpdate(HashOf(SubSeq(s, 1, Len(s) - 1)), s[Len(s)])

(***************************************************************************)
(* The blob the clients ask for, and the bodies an upstream may answer     *)
(* with: the blob itself, the blob with its last byte changed, and the     *)
(* blob followed by one more byte.                                         *)
(***************************************************************************)
ValidBody == <<1, 2>>
D == HashOf(ValidBody)

PoisonSwap == [ValidBody EXCEPT ![Len(ValidBody)] = 1]
PoisonExt == Append(ValidBody, 1)
UpstreamBodies == {ValidBody, PoisonSwap, PoisonExt}

Digests == {HashOf(b) : b \in UpstreamBodies}
FetchDigests == {D}
UploadBodies == {ValidBody}

Reqs == 1..MaxReqs
Fetches == 1..MaxFetches

VARIABLES
  file,      \* <cache_dir>/<sha256>: [exists, data]
  meta,      \* cache_metadata rows: [present, la, size, up]
  clock,     \* Date.now()
  inFlightFetches,  \* request-queue.ts: sha256 -> fetch (0: none)
  fetches,   \* the fetch factories and their stream pipelines
  reqs,      \* the GET/HEAD requests
  touchStat, \* pending updateAccessTime() calls that found no row
  uploads,   \* PUT /upload requests
  maxCacheSize,  \* config.ts MAX_CACHE_SIZE (-1: null, no limit)
  prunes,    \* the pruneCacheIfNeeded() calls in progress
  startup    \* initializeCache() and the metadata database file

vars ==
  <<file, meta, clock, inFlightFetches, fetches, reqs, touchStat, uploads,
    maxCacheSize, prunes, startup>>

NoFile == [exists |-> FALSE, data |-> <<>>]
NoRow == [present |-> FALSE, la |-> 0, size |-> 0, up |-> -1]

\* One call of fetchFromServer(): the upstream web it talks to, the URLs
\* still to try, the URL the runtime's fetch() is at, the redirects the
\* runtime has followed in this fetch(), the redirects followed for the
\* URL being tried, whether one of them had a Location without the digest,
\* the response handed to the code and what the call returned.
NoProxy ==
  [pc |-> "none", web |-> <<>>, servers |-> <<>>, redirectCount |-> 0,
   url |-> 0, followed |-> 0, hops |-> 0, swapped |-> FALSE,
   response |-> [kind |-> "none", location |-> 0], result |-> "none"]

NoFetch ==
  [st |-> "unused", d |-> 0, body |-> <<>>, clen |-> FALSE, creator |-> 0,
   hashed |-> 0, h |-> 0, digested |-> FALSE, upst |-> "open",
   w |-> "none", written |-> 0, linked |-> FALSE, cwDone |-> FALSE,
   valid |-> "pending", err |-> FALSE, purge |-> "none", overlap |-> FALSE,
   phase |-> "new", hints |-> <<>>, pubkeys |-> 0, relays |-> FALSE,
   fallback |-> <<>>, resolved |-> <<>>, allServers |-> <<>>,
   queue |-> <<>>, contacted |-> <<>>, replies |-> <<>>, timer |-> "none",
   elapsed |-> 0, chunks |-> <<>>, proxy |-> NoProxy]

NoReq ==
  [pc |-> "idle", d |-> 0, method |-> "GET", rangeHeader |-> <<>>,
   inm |-> <<>>, range |-> <<>>, f |-> 0, path |-> "none",
   status |-> 0, body |-> <<>>, etag |-> <<>>, cc |-> "", crange |-> <<>>,
   clength |-> -1, reason |-> "", end |-> "none", len |-> -1,
   got |-> 0, skipped |-> 0, sent |-> 0, readerCancelled |-> FALSE,
   fileDeleted |-> FALSE]

NoUpload == [pc |-> "idle", body |-> <<>>, hash |-> 0]

\* initializeCache() has returned: the database file is there and open.
StartupDone == [pc |-> "done", dbFile |-> TRUE, names |-> {}, dbFails |-> FALSE]

\* ensureDatabase() -> initDatabase(): new Database(dbPath) creates the
\* file when it is missing, CREATE TABLE IF NOT EXISTS.
EnsureDatabase(s) == [s EXCEPT !.dbFile = TRUE]

\* The request shapes: method, Range header and If-None-Match header.  A
\* header is a sequence of characters, <<>> when it is absent; "bytes=" is
\* written as one character.
PlainGet == [method |-> "GET", range |-> <<>>, inm |-> <<>>]

Shapes ==
  { PlainGet,
    [method |-> "HEAD", range |-> <<>>, inm |-> <<>>],
    [method |-> "GET", range |-> <<"bytes=", "3", "-">>, inm |-> <<>>],
    [method |-> "GET", range |-> <<"bytes=", "1", "-", "1">>, inm |-> <<>>] }

Init ==
  /\ file = [d \in Digests |-> NoFile]
  /\ meta = [d \in Digests |-> NoRow]
  /\ clock = 1
  /\ inFlightFetches = [d \in Digests |-> 0]
  /\ fetches = [f \in Fetches |-> NoFetch]
  /\ reqs = [r \in Reqs |-> NoReq]
  /\ touchStat = [d \in Digests |-> <<>>]
  /\ uploads = [u \in 1..MaxUploads |-> NoUpload]
  /\ maxCacheSize = -1
  /\ prunes = <<>>
  /\ startup = StartupDone

(***************************************************************************)
(* Cache store (cache.ts).                                                 *)
(***************************************************************************)

\* getCacheSize(): SELECT COALESCE(SUM(size), 0) FROM cache_metadata
RECURSIVE SumSizes(_, _)
SumSizes(m, ds) ==
  IF ds = {} THEN 0
  ELSE LET d == CHOOSE x \in ds : TRUE
       IN (IF m[d].present THEN m[d].size ELSE 0) + SumSizes(m, ds \ {d})

GetCacheSize(m) == SumSizes(m, Digests)

\* The metadata database is unavailable: ensureDatabase() throws, in
\* initDatabase() and again after the rebuild it attempts.
DbFails == startup.dbFails

\* getCacheSize() catches the failure and returns 0.
GetCacheSizeCaught(m) == IF DbFails THEN 0 ELSE GetCacheSize(m)

\* An upsert that takes the access for an upload.
UpsertFresh(row, now, size) ==
  [present |-> TRUE, la |-> now, size |-> size, up |-> now]

\* The upsert of updateAccessTime(): last_accessed = now, the given size,
\* the row's uploaded value preserved (null when there is no row).
UpsertAccess(row, now, size) ==
  [present |-> TRUE, la |-> now, size |-> size,
   up |-> IF row.present THEN row.up ELSE -1]

\* updateAccessTime(sha256, size) with a size argument; a failure of the
\* database is caught and logged.
UpdateAccessTimeSized(m, d, now, size) ==
  IF DbFails THEN m
  ELSE [m EXCEPT ![d] = UpsertAccess(m[d], now, size)]

\* updateAccessTime(sha256) without a size, once the row and the file have
\* been looked at: the row's size, else the file's size, else nothing.
UpdateAccessTime(m, fl, d, now) ==
  IF DbFails THEN m
  ELSE IF m[d].present THEN [m EXCEPT ![d] = UpsertAccess(m[d], now, m[d].size)]
  ELSE IF fl[d].exists
       THEN [m EXCEPT ![d] = UpsertAccess(m[d], now, Len(fl[d].data))]
       ELSE m

\* writeCacheWithMetadata(): INSERT OR REPLACE with the upload timestamp.
WriteCacheWithMetadata(m, d, now, size) ==
  IF DbFails THEN m
  ELSE [m EXCEPT ![d] = [present |-> TRUE, la |-> now, size |-> size, up |-> now]]

\* A write that does not call pruneCacheIfNeeded().
NoPruneCall(ps) == ps

\* pruneCacheIfNeeded() is called and not awaited: with no size limit it
\* returns at once, else it runs as a task of its own.
NewPrune == [pc |-> "check", rows |-> <<>>, toFree |-> 0, freed |-> 0, ok |-> FALSE]

\* A call that has returned.
PruneReturned == [NewPrune EXCEPT !.pc = "done"]

PruneCacheIfNeededCall(ps) ==
  IF maxCacheSize = -1 THEN ps ELSE Append(ps, NewPrune)

\* file.delete() on <cache_dir>/<d>: the path is unlinked; a writer that
\* had the file open keeps writing to the unlinked inode.
Unlinked(fs, d) ==
  [f \in Fetches |-> IF fs[f].d = d THEN [fs[f] EXCEPT !.linked = FALSE] ELSE fs[f]]

(***************************************************************************)
(* Header values (response.ts, handler.ts).                                *)
(***************************************************************************)
DigitChars == <<"0", "1", "2", "3", "4", "5", "6", "7", "8", "9">>

IsDigit(c) == \E n \in 1..Len(DigitChars) : DigitChars[n] = c

DigitVal(c) == (CHOOSE n \in 1..Len(DigitChars) : DigitChars[n] = c) - 1

\* parseInt(s, 10) of a string of digits.
RECURSIVE ParseInt(_)
ParseInt(s) ==
  IF s = <<>> THEN 0
  ELSE ParseInt(SubSeq(s, 1, Len(s) - 1)) * Len(DigitChars) + DigitVal(s[Len(s)])

\* Number.prototype.toString() of a natural number.
RECURSIVE ToDecimal(_)
ToDecimal(n) ==
  IF n < Len(DigitChars) THEN <<DigitChars[n + 1]>>
  ELSE ToDecimal(n \div Len(DigitChars))
         \o <<DigitChars[(n % Len(DigitChars)) + 1]>>

\* The hex name of a digest, as it stands in the URL and in the ETag.
HexOf(d) == ToDecimal(d)

\* generateETag(sha256): `"${sha256}"`
GenerateETag(d) == <<"\"">> \o HexOf(d) \o <<"\"">>

\* The length of the run of digits of h that starts at position i.
RECURSIVE DigitRun(_, _)
DigitRun(h, i) ==
  IF i <= Len(h) /\ IsDigit(h[i]) THEN 1 + DigitRun(h, i + 1) ELSE 0

\* /bytes=(\d+)-(\d*)/ matches at position i of the header.
RangeMatchAt(h, i) ==
  /\ h[i] = "bytes="
  /\ LET n == DigitRun(h, i + 1)
     IN n >= 1 /\ i + 1 + n <= Len(h) /\ h[i + 1 + n] = "-"

\* rangeHeader.match(/bytes=(\d+)-(\d*)/) with the parseInt() of its
\* groups: <<>> without a match, <<start>> when the second group is empty,
\* else <<start, end>>.
ParseRange(h) ==
  IF \E i \in 1..Len(h) : RangeMatchAt(h, i)
  THEN LET i == CHOOSE k \in 1..Len(h) :
                  RangeMatchAt(h, k) /\ \A j \in 1..(k - 1) : ~RangeMatchAt(h, j)
           n == DigitRun(h, i + 1)
           m == DigitRun(h, i + n + 2)
           start == ParseInt(SubSeq(h, i + 1, i + n))
       IN IF m = 0 THEN <<start>>
          ELSE <<start, ParseInt(SubSeq(h, i + n + 2, i + n + 1 + m))>>
  ELSE <<>>

\* String.prototype.split(","): the pieces between the commas.
RECURSIVE SplitComma(_)
SplitComma(s) ==
  IF \E i \in 1..Len(s) : s[i] = ","
  THEN LET i == CHOOSE k \in 1..Len(s) :
                  s[k] = "," /\ \A j \in 1..(k - 1) : s[j] # ","
       IN <<SubSeq(s, 1, i - 1)>> \o SplitComma(SubSeq(s, i + 1, Len(s)))
  ELSE <<s>>

\* String.prototype.trim()
RECURSIVE Trim(_)
Trim(s) ==
  IF s = <<>> THEN s
  ELSE IF s[1] = " " THEN Trim(SubSeq(s, 2, Len(s)))
  ELSE IF s[Len(s)] = " " THEN Trim(SubSeq(s, 1, Len(s) - 1))
  ELSE s

\* A replace() that leaves the weak prefix in place.
KeepWeak(s) == s

\* e.replace(/^W\//, "")
StripWeak(s) ==
  IF Len(s) >= 2 /\ s[1] = "W" /\ s[2] = "/" THEN SubSeq(s, 3, Len(s)) ELSE s

\* checkIfNoneMatch(request, etag)
CheckIfNoneMatch(ifNoneMatch, etag) ==
  IF ifNoneMatch = <<>> THEN FALSE
  ELSE LET pieces == SplitComma(ifNoneMatch)
           etags == [k \in 1..Len(pieces) |-> StripWeak(Trim(pieces[k]))]
           normalizedETag == StripWeak(etag)
       IN \E k \in 1..Len(etags) :
             etags[k] = normalizedETag \/ etags[k] = etag

(***************************************************************************)
(* Responses (response.ts, handler.ts).                                    *)
(***************************************************************************)
Immutable == "public, max-age=31536000, immutable"

\* createNotModifiedResponse(etag)
CreateNotModifiedResponse(etag) ==
  [status |-> 304, body |-> <<>>, etag |-> etag, cc |-> Immutable,
   crange |-> <<>>, clength |-> -1, reason |-> ""]

\* createErrorResponse(status, reason)
CreateErrorResponse(status, reason) ==
  [status |-> status, body |-> <<>>, etag |-> <<>>, cc |-> "",
   crange |-> <<>>, clength |-> -1, reason |-> reason]

\* `bytes ${start}-${end}/${size}`
ContentRange(start, end, size) ==
  <<"bytes ">> \o ToDecimal(start) \o <<"-">> \o ToDecimal(end) \o <<"/">>
    \o ToDecimal(size)

\* A range response whose slice stops one byte early: slice(start, end).
CachedRangeResponseShort(data, range, etag) ==
  LET size == Len(data)
      start == range[1]
      end == IF Len(range) = 2 THEN range[2] ELSE size - 1
  IN IF start < 0 \/ start >= size \/ end >= size \/ start > end
     THEN CreateErrorResponse(416, "Range not satisfiable")
     ELSE [status |-> 206, body |-> SubSeq(data, start + 1, end),
           etag |-> etag, cc |-> Immutable,
           crange |-> ContentRange(start, end, size),
           clength |-> end - start + 1, reason |-> ""]

\* The range check and slice of handleCachedFile() for a matched Range
\* header: range is <<start>> or <<start, end>>.
CachedRangeResponse(data, range, etag) ==
  LET size == Len(data)
      start == range[1]
      end == IF Len(range) = 2 THEN range[2] ELSE size - 1
  IN IF start < 0 \/ start >= size \/ end >= size \/ start > end
     THEN CreateErrorResponse(416, "Range not satisfiable")
     ELSE [status |-> 206, body |-> SubSeq(data, start + 1, end + 1),
           etag |-> etag, cc |-> Immutable,
           crange |-> ContentRange(start, end, size),
           clength |-> end - start + 1, reason |-> ""]

\* handleCachedFile(): HEAD, Range, or the full file.
HandleCachedFile(data, method, range, etag) ==
  IF method = "HEAD"
  THEN [status |-> 200, body |-> <<>>, etag |-> etag, cc |-> Immutable,
        crange |-> <<>>, clength |-> Len(data), reason |-> ""]
  ELSE IF range # <<>>
       THEN CachedRangeResponse(data, range, etag)
       ELSE [status |-> 200, body |-> data, etag |-> etag, cc |-> Immutable,
             crange |-> <<>>, clength |-> Len(data), reason |-> ""]

\* The range check of the miss path of handleBlobRequest(), for a matched
\* Range header and a known Content-Length.
MissRangeInvalid(contentLength, range) ==
  LET start == range[1]
      endByte == IF Len(range) = 2 THEN range[2] ELSE contentLength - 1
  IN start < 0 \/ start >= contentLength \/ endByte >= contentLength
       \/ start > endByte

Min(a, b) == IF a < b THEN a ELSE b

\* A pump that passes every chunk on as it is.
PumpWhole(st, value, start, rangeLength) ==
  [skipped |-> st.skipped, sent |-> st.sent + Len(value),
   out |-> st.out \o value, cancelled |-> FALSE]

\* One turn of the pump of the miss path's range stream: st is
\* [skipped, sent, out, cancelled], value the chunk read.
PumpChunk(st, value, start, rangeLength) ==
  IF st.skipped < start
  THEN LET skipAmount == Min(start - st.skipped, Len(value))
           remaining == SubSeq(value, skipAmount + 1, Len(value))
           toSend == Min(Len(remaining), rangeLength - st.sent)
           emit == skipAmount < Len(value) /\ toSend > 0
       IN [skipped |-> st.skipped + skipAmount,
           sent |-> IF emit THEN st.sent + toSend ELSE st.sent,
           out |-> IF emit THEN st.out \o SubSeq(remaining, 1, toSend) ELSE st.out,
           cancelled |-> FALSE]
  ELSE LET remaining == rangeLength - st.sent
           toSend == Min(Len(value), remaining)
       IN IF remaining <= 0
          THEN [st EXCEPT !.cancelled = TRUE]
          ELSE [skipped |-> st.skipped,
                sent |-> st.sent + toSend,
                out |-> st.out \o SubSeq(value, 1, toSend),
                cancelled |-> toSend < Len(value)]

(***************************************************************************)
(* handleBlobRequest() (handler.ts) up to getOrCreateFetch().              *)
(***************************************************************************)

\* Request slots and fetch slots are taken in order.
RequestOrder(r) == IF r = 1 THEN TRUE ELSE reqs[r - 1].pc # "idle"

FreeFetch ==
  {f \in Fetches : /\ fetches[f].st = "unused"
                   /\ \A g \in Fetches : g < f => fetches[g].st # "unused"}

BeingServed(r) == reqs[r].pc \notin {"idle", "done"}

\* The next request arrives.
Arrives(r) == reqs[r].pc = "idle" /\ RequestOrder(r)

\* The request as the handler reads it.
Received(req, d, shape) ==
  [req EXCEPT !.d = d, !.method = shape.method, !.rangeHeader = shape.range,
              !.inm = shape.inm, !.range = ParseRange(shape.range)]

\* The status and headers of a response.
WithHeaders(req, resp) ==
  [req EXCEPT !.status = resp.status, !.etag = resp.etag, !.cc = resp.cc,
              !.crange = resp.crange, !.clength = resp.clength,
              !.reason = resp.reason]

\* A response that is complete when it is returned.
Respond(req, resp) ==
  [WithHeaders(req, resp) EXCEPT !.pc = "done", !.body = resp.body, !.end = "ok"]

NotModifiedTouched(r, d, shape) ==
  /\ reqs' = [reqs EXCEPT ![r] =
                Respond([Received(@, d, shape) EXCEPT !.path = "conditional"],
                        CreateNotModifiedResponse(GenerateETag(d)))]
  /\ touchStat' = [touchStat EXCEPT ![d] = Append(@, clock)]
  /\ UNCHANGED <<file, meta, clock, inFlightFetches, fetches, uploads,
                 maxCacheSize, prunes, startup>>

\* The If-None-Match check at the top of handleBlobRequest().
NotModified(r, d, shape) ==
  /\ reqs' = [reqs EXCEPT ![r] =
                Respond([Received(@, d, shape) EXCEPT !.path = "conditional"],
                        CreateNotModifiedResponse(GenerateETag(d)))]
  /\ UNCHANGED <<file, meta, clock, inFlightFetches, fetches, touchStat,
                 uploads, maxCacheSize, prunes, startup>>

\* A cache hit that awaits the touch and lets its failure through.
CacheHitChecked(r, d, shape) ==
  /\ reqs' = [reqs EXCEPT ![r] =
                Respond([Received(@, d, shape) EXCEPT
                           !.path = "hit", !.len = Len(file[d].data)],
                        IF DbFails
                        THEN CreateErrorResponse(500, "Internal server error")
                        ELSE HandleCachedFile(file[d].data, shape.method,
                                              ParseRange(shape.range),
                                              GenerateETag(d)))]
  /\ UNCHANGED <<file, meta, clock, inFlightFetches, fetches, touchStat,
                 uploads, maxCacheSize, prunes, startup>>

\* checkCache() found the file: handleCachedFile() answers from it, and
\* updateAccessTime() runs unawaited (at once when the row exists; it ends
\* in its catch when the database fails).
CacheHit(r, d, shape) ==
  /\ reqs' = [reqs EXCEPT ![r] =
                Respond([Received(@, d, shape) EXCEPT
                           !.path = "hit", !.len = Len(file[d].data)],
                        HandleCachedFile(file[d].data, shape.method,
                                         ParseRange(shape.range),
                                         GenerateETag(d)))]
  /\ IF DbFails THEN UNCHANGED <<meta, clock, touchStat>>
     ELSE IF meta[d].present
     THEN /\ meta' = UpdateAccessTime(meta, file, d, clock)
          /\ clock' = clock + 1
          /\ UNCHANGED touchStat
     ELSE /\ touchStat' = [touchStat EXCEPT ![d] = Append(@, clock)]
          /\ UNCHANGED <<meta, clock>>
  /\ startup' = EnsureDatabase(startup)
  /\ UNCHANGED <<file, inFlightFetches, fetches, uploads, maxCacheSize, prunes>>

\* getOrCreateFetch(): an entry for the digest exists, the request waits
\* on its promise.
JoinFetch(r, d, shape) ==
  /\ reqs' = [reqs EXCEPT ![r] =
                [Received(@, d, shape) EXCEPT !.pc = "wait", !.path = "miss",
                                              !.f = inFlightFetches[d]]]
  /\ UNCHANGED <<file, meta, clock, inFlightFetches, fetches, touchStat,
                 uploads, maxCacheSize, prunes, startup>>

\* getOrCreateFetch(): no entry, the fetch factory starts and its promise
\* is stored in the map.
CreateFetch(r, d, shape, f) ==
  /\ reqs' = [reqs EXCEPT ![r] =
                [Received(@, d, shape) EXCEPT !.pc = "wait", !.path = "miss",
                                              !.f = f]]
  /\ fetches' = [fetches EXCEPT ![f] =
                   [NoFetch EXCEPT !.st = "resolving", !.d = d, !.creator = r,
                      !.overlap = \E q \in Reqs \ {r} :
                                     BeingServed(q) /\ reqs[q].d = d]]
  /\ inFlightFetches' = [inFlightFetches EXCEPT ![d] = f]
  /\ UNCHANGED <<file, meta, clock, touchStat, uploads, maxCacheSize, prunes,
                 startup>>

HandleBlobRequest(r, d, shape) ==
  /\ Arrives(r)
  /\ IF shape.range = <<>> /\ CheckIfNoneMatch(shape.inm, GenerateETag(d))
     THEN NotModified(r, d, shape)
     ELSE IF file[d].exists
          THEN CacheHit(r, d, shape)
          ELSE IF inFlightFetches[d] # 0
               THEN JoinFetch(r, d, shape)
               ELSE \E f \in FreeFetch : CreateFetch(r, d, shape, f)

(***************************************************************************)
(* The fetch factory finishes (handler.ts), the entry leaves the map       *)
(* (request-queue.ts) and the waiting handlers continue, the creator       *)
(* first.                                                                  *)
(***************************************************************************)

Waiters(f) == {r \in Reqs : reqs[r].pc = "wait" /\ reqs[r].f = f}

\* The status and headers of a streamed response of the miss path.
StreamHeaders(status, etag, crange, clength) ==
  [status |-> status, body |-> <<>>, etag |-> etag, cc |-> Immutable,
   crange |-> crange, clength |-> clength, reason |-> ""]

\* The handler of the first request to reach fetchResult.stream.tee():
\* the tee locks the stream, the handler answers by method and Range.
Attach(req, body, clenKnown) ==
  LET etag == GenerateETag(req.d)
      contentLength == Len(body)
      known == IF clenKnown THEN contentLength ELSE -1
      start == req.range[1]
      endByte == IF Len(req.range) = 2 THEN req.range[2] ELSE contentLength - 1
  IN IF req.method = "HEAD"
     THEN Respond(req, StreamHeaders(200, etag, <<>>, known))
     ELSE IF req.range # <<>> /\ clenKnown
          THEN IF MissRangeInvalid(contentLength, req.range)
               THEN Respond(req, CreateErrorResponse(416, "Range not satisfiable"))
               ELSE [WithHeaders(req,
                       StreamHeaders(206, etag,
                                     ContentRange(start, endByte, contentLength),
                                     endByte - start + 1))
                       EXCEPT !.pc = "stream"]
          ELSE [WithHeaders(req,
                  StreamHeaders(200, etag, <<>>, known))
                  EXCEPT !.pc = "stream"]

\* A handler that reaches fetchResult.stream.tee() when the stream is
\* already locked: tee() throws, index.ts answers 500.
AttachLocked(req) ==
  Respond(req, CreateErrorResponse(500, "Internal server error"))

FetchNoStreamArmed(f) ==
  /\ fetches[f].st = "resolving"
  /\ inFlightFetches' = [inFlightFetches EXCEPT ![fetches[f].d] = 0]
  /\ fetches' = [fetches EXCEPT ![f] =
                   [@ EXCEPT !.st = "nostream", !.valid = "false",
                             !.cwDone = TRUE, !.purge = "armed"]]
  /\ reqs' = [r \in Reqs |->
                IF r \in Waiters(f)
                THEN Respond(reqs[r], CreateErrorResponse(404, "Blob not found"))
                ELSE reqs[r]]
  /\ UNCHANGED <<file, meta, clock, touchStat, uploads, maxCacheSize, prunes,
                 startup>>

\* No candidate server answered: { stream: null, hashValidation: false }.
FetchNoStream(f) ==
  /\ fetches[f].st = "resolving"
  /\ inFlightFetches' = [inFlightFetches EXCEPT ![fetches[f].d] = 0]
  /\ fetches' = [fetches EXCEPT ![f] =
                   [@ EXCEPT !.st = "nostream", !.valid = "false", !.cwDone = TRUE]]
  /\ reqs' = [r \in Reqs |->
                IF r \in Waiters(f)
                THEN Respond(reqs[r], CreateErrorResponse(404, "Blob not found"))
                ELSE reqs[r]]
  /\ UNCHANGED <<file, meta, clock, touchStat, uploads, maxCacheSize, prunes,
                 startup>>

\* A candidate answered with a body: fetchFromServer() has cleared its
\* timeout when fetch() resolved with the response; createHashAndCacheStream()
\* wires the pipeline, the cache writer's start() is pending.
FetchStream(f, body, clenKnown) ==
  /\ fetches[f].st = "resolving"
  /\ inFlightFetches' = [inFlightFetches EXCEPT ![fetches[f].d] = 0]
  /\ fetches' = [fetches EXCEPT ![f] =
                   [@ EXCEPT !.st = "streaming", !.body = body, !.clen = clenKnown,
                             !.w = "init", !.purge = "armed",
                             !.timer = "cleared"]]
  /\ reqs' = [r \in Reqs |->
                LET req == [reqs[r] EXCEPT
                              !.len = IF clenKnown THEN Len(body) ELSE -1]
                IN IF r = fetches[f].creator THEN Attach(req, body, clenKnown)
                   ELSE IF r \in Waiters(f) THEN AttachLocked(req)
                   ELSE reqs[r]]
  /\ UNCHANGED <<file, meta, clock, touchStat, uploads, maxCacheSize, prunes,
                 startup>>

(***************************************************************************)
(* The stream pipeline of one fetch: upstream -> HashTransformStream ->     *)
(* tee -> cache writer / response stream (stream-utils.ts, hash-stream.ts, *)
(* cache-stream.ts).                                                       *)
(***************************************************************************)

\* The factory throws: the finally of getOrCreateFetch removes the entry,
\* fetchPromise rejects, and index.ts answers 500 to every awaiter.
FactoryThrows(f) ==
  /\ fetches[f].st = "resolving"
  /\ inFlightFetches' = [inFlightFetches EXCEPT ![fetches[f].d] = 0]
  /\ fetches' = [fetches EXCEPT ![f] =
                   [@ EXCEPT !.st = "threw", !.valid = "false", !.cwDone = TRUE]]
  /\ reqs' = [r \in Reqs |->
                IF r \in Waiters(f)
                THEN Respond(reqs[r], CreateErrorResponse(500, "Internal server error"))
                ELSE reqs[r]]
  /\ UNCHANGED <<file, meta, clock, touchStat, uploads, maxCacheSize, prunes,
                 startup>>

\* fetchFromServer(): setTimeout(() => controller.abort(), REQUEST_TIMEOUT)
\* and fetch(url, { signal }) is awaited.
FetchBegin(f) ==
  /\ fetches[f].st = "resolving"
  /\ fetches[f].timer = "none"
  /\ fetches' = [fetches EXCEPT ![f] = [@ EXCEPT !.timer = "armed"]]
  /\ UNCHANGED <<file, meta, clock, inFlightFetches, reqs, touchStat, uploads,
                 maxCacheSize, prunes, startup>>

\* REQUEST_TIMEOUT, in ticks of the time that passes.
RequestTimeout == 2

\* The timeout fires while fetch() is awaited: controller.abort(), fetch()
\* rejects with an AbortError and fetchFromServer() returns null.
TimerFires(f) ==
  /\ fetches[f].st = "resolving"
  /\ fetches[f].timer = "armed"
  /\ fetches[f].elapsed >= RequestTimeout
  /\ fetches' = [fetches EXCEPT ![f] = [@ EXCEPT !.timer = "fired"]]
  /\ UNCHANGED <<file, meta, clock, inFlightFetches, reqs, touchStat, uploads,
                 maxCacheSize, prunes, startup>>

\* Time passes for a fetch that waits for its upstream: for the response,
\* or for the next chunk of the body.  An armed timeout fires when it is
\* due, so time does not pass beyond it; the steps of the program itself
\* take no time.
Tick(f) ==
  /\ \/ fetches[f].st = "resolving" /\ fetches[f].timer = "armed"
     \/ fetches[f].st = "streaming" /\ fetches[f].upst = "open"
  /\ fetches[f].elapsed <= RequestTimeout
  /\ fetches[f].timer = "armed" => fetches[f].elapsed < RequestTimeout
  /\ fetches' = [fetches EXCEPT ![f] = [@ EXCEPT !.elapsed = @ + 1]]
  /\ UNCHANGED <<file, meta, clock, inFlightFetches, reqs, touchStat, uploads,
                 maxCacheSize, prunes, startup>>

\* HashTransformStream.transform(): hasher.update(chunk), enqueue(chunk).
\* (After digest() a Bun.CryptoHasher is reset, so a later update() goes
\* on, into a hash that nobody reads.)
HashChunk(f) ==
  /\ fetches[f].st = "streaming"
  /\ fetches[f].upst = "open"
  /\ ~fetches[f].err
  /\ fetches[f].hashed < Len(fetches[f].body)
  /\ fetches' = [fetches EXCEPT ![f] =
        [@ EXCEPT !.hashed = @ + 1,
                  !.h = HashUpdate(@, fetches[f].body[fetches[f].hashed + 1])]]
  /\ UNCHANGED <<file, meta, clock, inFlightFetches, reqs, touchStat, uploads,
                 maxCacheSize, prunes, startup>>

\* The upstream body ends.
UpstreamEOF(f) ==
  /\ fetches[f].st = "streaming"
  /\ fetches[f].upst = "open"
  /\ ~fetches[f].err
  /\ fetches[f].hashed = Len(fetches[f].body)
  /\ fetches' = [fetches EXCEPT ![f] = [@ EXCEPT !.upst = "eof"]]
  /\ UNCHANGED <<file, meta, clock, inFlightFetches, reqs, touchStat, uploads,
                 maxCacheSize, prunes, startup>>

\* createCacheStream().start(): mkdir, then file.writer() opens the file
\* (created, or truncated when it exists).
CacheStart(f) ==
  /\ fetches[f].w = "init"
  /\ fetches' = [fetches EXCEPT ![f] = [@ EXCEPT !.w = "open", !.linked = TRUE]]
  /\ file' = [file EXCEPT ![fetches[f].d] = [exists |-> TRUE, data |-> <<>>]]
  /\ UNCHANGED <<meta, clock, inFlightFetches, reqs, touchStat, uploads,
                 maxCacheSize, prunes, startup>>

\* A write of one byte at a file offset (the file grows, with holes, when
\* the offset is past its end).
WriteAt(data, pos, byte) ==
  [i \in 1..(IF Len(data) > pos THEN Len(data) ELSE pos) |->
     IF i = pos THEN byte ELSE IF i <= Len(data) THEN data[i] ELSE 0]

\* createCacheStream().write(chunk): writer.write(chunk).
CacheWrite(f) ==
  /\ fetches[f].w = "open"
  /\ fetches[f].written < fetches[f].hashed
  /\ LET d == fetches[f].d
         pos == fetches[f].written + 1
     IN file' = IF fetches[f].linked /\ file[d].exists
                THEN [file EXCEPT ![d].data = WriteAt(@, pos, fetches[f].body[pos])]
                ELSE file
  /\ fetches' = [fetches EXCEPT ![f] = [@ EXCEPT !.written = @ + 1]]
  /\ UNCHANGED <<meta, clock, inFlightFetches, reqs, touchStat, uploads,
                 maxCacheSize, prunes, startup>>

\* writer.write(chunk) throws: the writable stream is errored, pipeTo()
\* rejects and cancels the cache branch; the sink's abort() is not called,
\* so the file stays as it is.  cacheWritePromise resolves.
CacheWriteFail(f) ==
  /\ fetches[f].w = "open"
  /\ fetches[f].written < fetches[f].hashed
  /\ fetches' = [fetches EXCEPT ![f] = [@ EXCEPT !.w = "errored", !.cwDone = TRUE]]
  /\ UNCHANGED <<file, meta, clock, inFlightFetches, reqs, touchStat, uploads,
                 maxCacheSize, prunes, startup>>

\* A close() that ends the writer and records nothing.
CacheCloseSilent(f) ==
  /\ fetches[f].w = "open"
  /\ fetches[f].upst = "eof"
  /\ fetches[f].written = Len(fetches[f].body)
  /\ fetches' = [fetches EXCEPT ![f] = [@ EXCEPT !.w = "closed", !.cwDone = TRUE]]
  /\ UNCHANGED <<file, meta, clock, inFlightFetches, reqs, touchStat, uploads,
                 maxCacheSize, prunes, startup>>

\* createCacheStream().close(): writer.end(); when the file exists,
\* updateAccessTime(sha256, stats.size) and pruneCacheIfNeeded().
\* cacheWritePromise resolves.
CacheClose(f) ==
  /\ fetches[f].w = "open"
  /\ fetches[f].upst = "eof"
  /\ fetches[f].written = Len(fetches[f].body)
  /\ fetches' = [fetches EXCEPT ![f] = [@ EXCEPT !.w = "closed", !.cwDone = TRUE]]
  /\ LET d == fetches[f].d
     IN IF file[d].exists
        THEN /\ meta' = UpdateAccessTimeSized(meta, d, clock, Len(file[d].data))
             /\ clock' = clock + 1
             /\ prunes' = PruneCacheIfNeededCall(prunes)
             /\ startup' = EnsureDatabase(startup)
        ELSE UNCHANGED <<meta, clock, prunes, startup>>
  /\ UNCHANGED <<file, inFlightFetches, reqs, touchStat, uploads, maxCacheSize>>

\* The upstream body errors before its end: the streams are errored,
\* pipeTo() aborts the cache writer, whose abort() deletes the file.
UpstreamError(f) ==
  /\ fetches[f].st = "streaming"
  /\ fetches[f].upst = "open"
  /\ ~fetches[f].err
  /\ LET d == fetches[f].d
         aborts == fetches[f].w \in {"init", "open"}
     IN /\ fetches' =
             [Unlinked(fetches, IF aborts THEN d ELSE 0) EXCEPT ![f] =
                [@ EXCEPT !.upst = "error", !.err = TRUE,
                          !.w = IF aborts THEN "aborted" ELSE @,
                          !.cwDone = TRUE]]
        /\ file' = IF aborts THEN [file EXCEPT ![d] = NoFile] ELSE file
  /\ UNCHANGED <<meta, clock, inFlightFetches, reqs, touchStat, uploads,
                 maxCacheSize, prunes, startup>>

\* A validateHash() that accepts every digest.
ValidateHashAlways(h, expected) == TRUE

\* hashValidationPromise: after cacheWritePromise, hashStream.validateHash()
\* takes the digest of what has been hashed so far (which resets the
\* hasher) and compares it with the expected digest.
ValidateHash(h, expected) == h = expected

HashValidation(f) ==
  /\ fetches[f].st = "streaming"
  /\ fetches[f].cwDone
  /\ fetches[f].valid = "pending"
  /\ fetches' = [fetches EXCEPT ![f] =
        [@ EXCEPT !.digested = TRUE, !.h = 0,
                  !.valid = IF ValidateHash(fetches[f].h, fetches[f].d)
                            THEN "true" ELSE "false"]]
  /\ UNCHANGED <<file, meta, clock, inFlightFetches, reqs, touchStat, uploads,
                 maxCacheSize, prunes, startup>>

\* The handler's hashValidation.then(): on false, delete <cache_dir>/<d>.
PurgeInvalid(f) ==
  /\ fetches[f].purge = "armed"
  /\ fetches[f].valid = "false"
  /\ fetches' = [Unlinked(fetches, fetches[f].d) EXCEPT ![f] =
                   [@ EXCEPT !.purge = "done", !.linked = FALSE]]
  /\ file' = [file EXCEPT ![fetches[f].d] = NoFile]
  /\ UNCHANGED <<meta, clock, inFlightFetches, reqs, touchStat, uploads,
                 maxCacheSize, prunes, startup>>

(***************************************************************************)
(* The response body of a request on the miss path: the request's branch   *)
(* of the response stream (handler.ts).                                    *)
(***************************************************************************)

\* The request's branch yields the next chunk: passed on as it is (200),
\* or through the pump of the range stream (206).
Deliver(r) ==
  /\ reqs[r].pc = "stream"
  /\ LET f == reqs[r].f
         req == reqs[r]
         value == <<fetches[f].body[req.got + 1]>>
         start == req.range[1]
         endByte == IF Len(req.range) = 2 THEN req.range[2]
                    ELSE Len(fetches[f].body) - 1
         p == PumpChunk([skipped |-> req.skipped, sent |-> req.sent,
                         out |-> req.body, cancelled |-> FALSE],
                        value, start, endByte - start + 1)
     IN /\ ~fetches[f].err
        /\ req.got < fetches[f].hashed
        /\ reqs' = [reqs EXCEPT ![r] =
              IF req.status = 206
              THEN [req EXCEPT !.got = @ + 1, !.skipped = p.skipped,
                               !.sent = p.sent, !.body = p.out,
                               !.readerCancelled = p.cancelled,
                               !.pc = IF p.cancelled THEN "done" ELSE @,
                               !.end = IF p.cancelled THEN "ok" ELSE @]
              ELSE [req EXCEPT !.got = @ + 1, !.body = @ \o value]]
  /\ UNCHANGED <<file, meta, clock, inFlightFetches, fetches, touchStat,
                 uploads, maxCacheSize, prunes, startup>>

\* The branch is read to its end: the response body is complete.
Finish(r) ==
  /\ reqs[r].pc = "stream"
  /\ LET f == reqs[r].f
     IN /\ ~fetches[f].err
        /\ fetches[f].upst = "eof"
        /\ reqs[r].got = fetches[f].hashed
  /\ reqs' = [reqs EXCEPT ![r] = [@ EXCEPT !.pc = "done", !.end = "ok"]]
  /\ UNCHANGED <<file, meta, clock, inFlightFetches, fetches, touchStat,
                 uploads, maxCacheSize, prunes, startup>>

\* The stream is errored: the response body breaks off.
StreamError(r) ==
  /\ reqs[r].pc = "stream"
  /\ fetches[reqs[r].f].err
  /\ reqs' = [reqs EXCEPT ![r] = [@ EXCEPT !.pc = "done", !.end = "error"]]
  /\ UNCHANGED <<file, meta, clock, inFlightFetches, fetches, touchStat,
                 uploads, maxCacheSize, prunes, startup>>

\* The chunk that starts at byte offset got of a body that arrives in
\* chunks of the lengths given (0: no chunk starts there).
RECURSIVE ChunkAt(_, _)
ChunkAt(chunks, got) ==
  IF chunks = <<>> \/ got < 0 THEN 0
  ELSE IF got = 0 THEN Head(chunks)
  ELSE ChunkAt(Tail(chunks), got - Head(chunks))

\* The pump of the range stream reads the next chunk of a body that
\* arrives in chunks of any length.
PumpRead(r) ==
  /\ reqs[r].pc = "stream"
  /\ reqs[r].status = 206
  /\ LET f == reqs[r].f
         req == reqs[r]
         n == ChunkAt(fetches[f].chunks, req.got)
         value == SubSeq(fetches[f].body, req.got + 1, req.got + n)
         start == req.range[1]
         endByte == IF Len(req.range) = 2 THEN req.range[2]
                    ELSE Len(fetches[f].body) - 1
         p == PumpChunk([skipped |-> req.skipped, sent |-> req.sent,
                         out |-> req.body, cancelled |-> FALSE],
                        value, start, endByte - start + 1)
     IN /\ ~fetches[f].err
        /\ n > 0
        /\ req.got + n <= fetches[f].hashed
        /\ reqs' = [reqs EXCEPT ![r] =
              [req EXCEPT !.got = @ + n, !.skipped = p.skipped,
                          !.sent = p.sent, !.body = p.out,
                          !.readerCancelled = p.cancelled,
                          !.pc = IF p.cancelled THEN "done" ELSE @,
                          !.end = IF p.cancelled THEN "ok" ELSE @]]
  /\ UNCHANGED <<file, meta, clock, inFlightFetches, fetches, touchStat,
                 uploads, maxCacheSize, prunes, startup>>

\* A cancel() that reaches the upstream body: the read stops there.
CancelAll(r) ==
  /\ reqs[r].pc = "stream"
  /\ reqs' = [reqs EXCEPT ![r] = [@ EXCEPT !.pc = "done", !.end = "cancelled"]]
  /\ fetches' = [fetches EXCEPT ![reqs[r].f] =
                   [@ EXCEPT !.upst = IF @ = "open" THEN "cancelled" ELSE @]]
  /\ UNCHANGED <<file, meta, clock, inFlightFetches, touchStat, uploads,
                 maxCacheSize, prunes, startup>>

\* The client hangs up: the response body, requestStream, is cancelled.
\* requestStream is one branch of fetchResult.stream.tee(); the other,
\* hashConsumptionStream, is piped to a writer that discards, so the tee
\* does not cancel its source, which is itself one branch of the tee whose
\* other branch feeds the cache writer.
Cancel(r) ==
  /\ reqs[r].pc = "stream"
  /\ reqs' = [reqs EXCEPT ![r] = [@ EXCEPT !.pc = "done", !.end = "cancelled"]]
  /\ UNCHANGED <<file, meta, clock, inFlightFetches, fetches, touchStat,
                 uploads, maxCacheSize, prunes, startup>>

\* An unawaited updateAccessTime(sha256) that found no row goes on: when
\* the file exists, the upsert with the file's size and the time that the
\* call took before it looked for the row.
TouchStat(d) ==
  /\ touchStat[d] # <<>>
  /\ touchStat' = [touchStat EXCEPT ![d] = Tail(@)]
  /\ IF file[d].exists
     THEN /\ meta' = UpdateAccessTimeSized(meta, d, Head(touchStat[d]),
                                           Len(file[d].data))
          /\ clock' = clock + 1
     ELSE UNCHANGED <<meta, clock>>
  /\ startup' = EnsureDatabase(startup)
  /\ UNCHANGED <<file, inFlightFetches, fetches, reqs, uploads, maxCacheSize,
                 prunes>>

(***************************************************************************)
(* handleDeleteRequest() (delete.ts) and deleteBlobFromCache() (cache.ts). *)
(***************************************************************************)

\* DELETE /<sha256> from localhost: the file is deleted when it exists,
\* then ensureDatabase() is awaited.
HandleDeleteRequest(r, d) ==
  /\ Arrives(r)
  /\ reqs' = [reqs EXCEPT ![r] =
       [@ EXCEPT !.pc = "dbdelete", !.method = "DELETE", !.d = d,
                 !.path = "delete", !.fileDeleted = file[d].exists]]
  /\ file' = [file EXCEPT ![d] = NoFile]
  /\ fetches' = Unlinked(fetches, d)
  /\ UNCHANGED <<meta, clock, inFlightFetches, touchStat, uploads,
                 maxCacheSize, prunes, startup>>

\* DELETE FROM cache_metadata WHERE sha256 = ?, and the response: 204 when
\* the file or the row was deleted, else 404.
DeleteRow(r) ==
  /\ reqs[r].pc = "dbdelete"
  /\ LET d == reqs[r].d
         dbDeleted == ~DbFails /\ meta[d].present
     IN /\ meta' = IF DbFails THEN meta ELSE [meta EXCEPT ![d] = NoRow]
        /\ reqs' = [reqs EXCEPT ![r] =
             [@ EXCEPT !.pc = "done", !.end = "ok",
                       !.status = IF reqs[r].fileDeleted \/ dbDeleted
                                  THEN 204 ELSE 404,
                       !.reason = IF reqs[r].fileDeleted \/ dbDeleted
                                  THEN "" ELSE "Blob not found"]]
  /\ startup' = EnsureDatabase(startup)
  /\ UNCHANGED <<file, clock, inFlightFetches, fetches, touchStat, uploads,
                 maxCacheSize, prunes>>

(***************************************************************************)
(* handleUploadRequest() (upload.ts).                                      *)
(***************************************************************************)

UploadOrder(u) == IF u = 1 THEN TRUE ELSE uploads[u - 1].pc # "idle"

\* The body is streamed to a temporary file and hashed; when a blob with
\* the computed hash exists already the upload is skipped.
UploadHash(u, body) ==
  /\ uploads[u].pc = "idle"
  /\ UploadOrder(u)
  /\ LET computedHash == HashOf(body)
     IN uploads' = [uploads EXCEPT ![u] =
          [pc |-> IF file[computedHash].exists THEN "skipped" ELSE "write",
           body |-> body, hash |-> computedHash]]
  /\ UNCHANGED <<file, meta, clock, inFlightFetches, fetches, reqs, touchStat,
                 maxCacheSize, prunes, startup>>

\* Bun.write(finalCachePath, tempFile).
UploadWrite(u) ==
  /\ uploads[u].pc = "write"
  /\ file' = [file EXCEPT ![uploads[u].hash] =
                [exists |-> TRUE, data |-> uploads[u].body]]
  /\ uploads' = [uploads EXCEPT ![u].pc = "record"]
  /\ UNCHANGED <<meta, clock, inFlightFetches, fetches, reqs, touchStat,
                 maxCacheSize, prunes, startup>>

\* writeCacheWithMetadata(computedHash, finalSize, uploadedTimestamp).
UploadRecord(u) ==
  /\ uploads[u].pc = "record"
  /\ meta' = WriteCacheWithMetadata(meta, uploads[u].hash, clock,
                                    Len(uploads[u].body))
  /\ clock' = clock + 1
  /\ prunes' = IF DbFails THEN prunes ELSE PruneCacheIfNeededCall(prunes)
  /\ uploads' = [uploads EXCEPT ![u].pc = "done"]
  /\ startup' = EnsureDatabase(startup)
  /\ UNCHANGED <<file, inFlightFetches, fetches, reqs, touchStat, maxCacheSize>>

(***************************************************************************)
(* The server: requests, fetches and uploads interleave at every await.    *)
(* Spec: concurrent requests for one digest whose upstream answers with    *)
(* the blob, or with nothing.                                              *)
(***************************************************************************)
Pipeline(f) ==
  \/ HashChunk(f)
  \/ UpstreamEOF(f)
  \/ CacheStart(f)
  \/ CacheWrite(f)
  \/ CacheClose(f)
  \/ HashValidation(f)

Subscriber(r) ==
  \/ Deliver(r)
  \/ Finish(r)

Next ==
  \/ \E r \in Reqs, d \in FetchDigests, shape \in Shapes :
       HandleBlobRequest(r, d, shape)
  \/ \E f \in Fetches : FetchNoStream(f)
  \/ \E f \in Fetches, clenKnown \in BOOLEAN :
       FetchStream(f, ValidBody, clenKnown)
  \/ \E f \in Fetches : Pipeline(f)
  \/ \E r \in Reqs : Subscriber(r)
  \/ \E d \in Digests : TouchStat(d)

Spec == Init /\ [][Next]_vars

(***************************************************************************)
(* SpecIntegrity: fetches whose upstream answers with the blob or with     *)
(* another body, stream errors, cache write failures, and uploads.  The     *)
(* clients leave their response bodies unread: the tee buffers, so the     *)
(* pipeline does not wait for them.                                        *)
(***************************************************************************)
NextIntegrity ==
  \/ \E r \in Reqs, d \in FetchDigests : HandleBlobRequest(r, d, PlainGet)
  \/ \E f \in Fetches, body \in UpstreamBodies : FetchStream(f, body, TRUE)
  \/ \E f \in Fetches : HashChunk(f)
  \/ \E f \in Fetches : UpstreamEOF(f)
  \/ \E f \in Fetches : UpstreamError(f)
  \/ \E f \in Fetches : CacheStart(f)
  \/ \E f \in Fetches : CacheWrite(f)
  \/ \E f \in Fetches : CacheWriteFail(f)
  \/ \E f \in Fetches : CacheClose(f)
  \/ \E f \in Fetches : HashValidation(f)
  \/ \E f \in Fetches : PurgeInvalid(f)
  \/ \E d \in Digests : TouchStat(d)
  \/ \E u \in 1..MaxUploads, body \in UploadBodies : UploadHash(u, body)
  \/ \E u \in 1..MaxUploads : UploadWrite(u)
  \/ \E u \in 1..MaxUploads : UploadRecord(u)

SpecIntegrity == Init /\ [][NextIntegrity]_vars

(***************************************************************************)
(* SpecRange: requests with any Range header against cached blobs.         *)
(***************************************************************************)
MaxRangeLen == 4

RangeChars == {"bytes=", "-", ",", "0", "1", "2", "3"}

RangeHeaders == UNION {[1..n -> RangeChars] : n \in 0..MaxRangeLen}

BodyOf(d) == CHOOSE b \in UpstreamBodies : HashOf(b) = d

\* Every blob has been uploaded: its file and its row are there.
InitCached ==
  /\ file = [d \in Digests |-> [exists |-> TRUE, data |-> BodyOf(d)]]
  /\ meta = [d \in Digests |->
               [present |-> TRUE, la |-> 1, size |-> Len(BodyOf(d)), up |-> 1]]
  /\ clock = 2
  /\ inFlightFetches = [d \in Digests |-> 0]
  /\ fetches = [f \in Fetches |-> NoFetch]
  /\ reqs = [r \in Reqs |-> NoReq]
  /\ touchStat = [d \in Digests |-> <<>>]
  /\ uploads = [u \in 1..MaxUploads |-> NoUpload]
  /\ maxCacheSize = -1
  /\ prunes = <<>>
  /\ startup = StartupDone

NextRange ==
  /\ Arrives(1)
  /\ \E d \in Digests, method \in {"GET", "HEAD"}, h \in RangeHeaders :
       HandleBlobRequest(1, d, [method |-> method, range |-> h, inm |-> <<>>])

SpecRange == InitCached /\ [][NextRange]_vars

(***************************************************************************)
(* SpecETag: a plain request, then a request with an If-None-Match header, *)
(* for a digest that is cached or not.                                     *)
(***************************************************************************)
MaxInmList == 2

\* The entity tags a client may send: the ETag of a digest, a digest
\* without quotes, and the wildcard.
InmTags ==
  {GenerateETag(d) : d \in Digests} \cup {HexOf(D), <<"*">>}

\* An element of the list: optional spaces, an optional weak prefix, a tag.
InmElements ==
  [lead : 0..1, weak : BOOLEAN, tag : InmTags, trail : 0..1]

InmLists == UNION {[1..n -> InmElements] : n \in 0..MaxInmList}

Spaces(n) == [i \in 1..n |-> " "]

RenderElement(e) ==
  Spaces(e.lead) \o (IF e.weak THEN <<"W", "/">> ELSE <<>>) \o e.tag
    \o Spaces(e.trail)

\* The header value of a list: its elements joined by commas.
RECURSIVE RenderInm(_)
RenderInm(l) ==
  IF l = <<>> THEN <<>>
  ELSE IF Len(l) = 1 THEN RenderElement(l[1])
  ELSE RenderInm(SubSeq(l, 1, Len(l) - 1)) \o <<",">> \o RenderElement(l[Len(l)])

InmHeaders == {RenderInm(l) : l \in InmLists}

ValidRangeHeader == <<"bytes=", "0", "-">>

InitETag == Init \/ InitCached

FirstRequest ==
  /\ Arrives(1)
  /\ \E method \in {"GET", "HEAD"} :
       HandleBlobRequest(1, D, [method |-> method, range |-> <<>>, inm |-> <<>>])

ConditionalRequest ==
  /\ Arrives(2)
  /\ \E method \in {"GET", "HEAD"}, h \in {<<>>, ValidRangeHeader},
        inm \in InmHeaders :
       HandleBlobRequest(2, D, [method |-> method, range |-> h, inm |-> inm])

NextETag == FirstRequest \/ ConditionalRequest

SpecETag == InitETag /\ [][NextETag]_vars

(***************************************************************************)
(* SpecNotModified: requests with and without If-None-Match and Range      *)
(* that arrive at any moment of a fetch of D: before it, while it looks    *)
(* for a server, while it streams, after it ended with or without a blob.  *)
(***************************************************************************)
ConditionalHeaders ==
  {<<>>, <<"W", "/">> \o GenerateETag(D), GenerateETag(HashOf(PoisonSwap))}

NextNotModified ==
  \/ \E r \in Reqs, method \in {"GET", "HEAD"}, h \in {<<>>, ValidRangeHeader},
        inm \in ConditionalHeaders :
       HandleBlobRequest(r, D, [method |-> method, range |-> h, inm |-> inm])
  \/ \E f \in Fetches : FetchNoStream(f)
  \/ \E f \in Fetches : FetchStream(f, ValidBody, TRUE)
  \/ \E f \in Fetches : Pipeline(f)
  \/ \E r \in Reqs : Subscriber(r)
  \/ \E d \in Digests : TouchStat(d)

SpecNotModified == InitETag /\ [][NextNotModified]_vars

(***************************************************************************)
(* SpecNotFound: fetches of D that find no server, a valid blob or a       *)
(* poisoned one, and an upload of the blob at any moment.                  *)
(***************************************************************************)
NextNotFound ==
  \/ \E r \in Reqs, method \in {"GET", "HEAD"} :
       HandleBlobRequest(r, D, [method |-> method, range |-> <<>>,
                                inm |-> <<>>])
  \/ \E f \in Fetches : FetchNoStream(f)
  \/ \E f \in Fetches, body \in {ValidBody, PoisonSwap} :
       FetchStream(f, body, TRUE)
  \/ \E f \in Fetches : Pipeline(f)
  \/ \E f \in Fetches : PurgeInvalid(f)
  \/ \E r \in Reqs : Subscriber(r)
  \/ \E d \in Digests : TouchStat(d)
  \/ \E u \in 1..MaxUploads : UploadHash(u, ValidBody)
  \/ \E u \in 1..MaxUploads : UploadWrite(u)
  \/ \E u \in 1..MaxUploads : UploadRecord(u)

SpecNotFound == Init /\ [][NextNotFound]_vars

(***************************************************************************)
(* SpecPurge: fetches of D whose upstream sends the blob or a poisoned     *)
(* body, and an upload of the blob that starts once a fetch of D has       *)
(* returned its stream, that is, once its entry has left the in-flight map.*)
(***************************************************************************)
LeftInFlight(d) ==
  \E f \in Fetches :
    fetches[f].d = d /\ fetches[f].st = "streaming" /\ inFlightFetches[d] # f

NextPurge ==
  \/ \E r \in Reqs :
       HandleBlobRequest(r, D, [method |-> "HEAD", range |-> <<>>,
                                inm |-> <<>>])
  \/ \E f \in Fetches, body \in {ValidBody, PoisonSwap} :
       FetchStream(f, body, TRUE)
  \/ \E f \in Fetches : Pipeline(f)
  \/ \E f \in Fetches : PurgeInvalid(f)
  \/ \E d \in Digests : TouchStat(d)
  \/ \E u \in 1..MaxUploads : LeftInFlight(D) /\ UploadHash(u, ValidBody)
  \/ \E u \in 1..MaxUploads : UploadWrite(u)
  \/ \E u \in 1..MaxUploads : UploadRecord(u)

SpecPurge == Init /\ [][NextPurge]_vars

(***************************************************************************)
(* pruneCacheIfNeeded() and pruneCache() (cache.ts): a call runs as a task *)
(* of its own, and other work interleaves at each of its awaits.           *)
(***************************************************************************)

\* SELECT sha256, size FROM cache_metadata ORDER BY last_accessed ASC: the
\* statement names no second sort key, so rows with the same last_accessed
\* come back in whatever order the query plan yields.  Every order that is
\* ascending in last_accessed is a result the statement may return.
RowsByAccess(m, ds) ==
  LET n == Cardinality(ds)
      orders == {p \in [1..n -> ds] :
                   /\ \A i, j \in 1..n : p[i] = p[j] => i = j
                   /\ \A i \in 1..(n - 1) : m[p[i]].la <= m[p[i + 1]].la}
  IN {[i \in 1..n |-> [sha256 |-> p[i], size |-> m[p[i]].size]] : p \in orders}

\* Math.floor(MAX_CACHE_SIZE * 0.9)
TargetSize(max) == (max * 9) \div 10

\* pruneCacheIfNeeded(): getCacheSize() against MAX_CACHE_SIZE.
PruneCheck(i) ==
  /\ prunes[i].pc = "check"
  /\ prunes' = [prunes EXCEPT ![i] =
       IF GetCacheSizeCaught(meta) > maxCacheSize
       THEN [@ EXCEPT !.pc = "start"] ELSE PruneReturned]
  /\ startup' = EnsureDatabase(startup)
  /\ UNCHANGED <<file, meta, clock, inFlightFetches, fetches, reqs, touchStat,
                 uploads, maxCacheSize>>

\* pruneCache() up to its first file.delete(): the size is read again, the
\* rows are selected, the loop is entered.
PruneStart(i) ==
  /\ prunes[i].pc = "start"
  /\ LET currentSize == GetCacheSizeCaught(meta)
         sizeToFree == currentSize - TargetSize(maxCacheSize)
     IN \E rows \in RowsByAccess(meta, {d \in Digests : meta[d].present}) :
          prunes' = [prunes EXCEPT ![i] =
            IF DbFails \/ currentSize <= maxCacheSize \/ sizeToFree <= 0
            THEN PruneReturned
            ELSE [@ EXCEPT !.pc = "unlink", !.toFree = sizeToFree, !.freed = 0,
                           !.rows = rows]]
  /\ UNCHANGED <<file, meta, clock, inFlightFetches, fetches, reqs, touchStat,
                 uploads, maxCacheSize, startup>>

\* await file.delete() of the first row left: the file is unlinked, or the
\* call throws because there is no such file.
PruneUnlink(i) ==
  /\ prunes[i].pc = "unlink"
  /\ LET d == prunes[i].rows[1].sha256
     IN /\ prunes' = [prunes EXCEPT ![i] =
                        [@ EXCEPT !.pc = "forget", !.ok = file[d].exists]]
        /\ file' = [file EXCEPT ![d] = NoFile]
        /\ fetches' = Unlinked(fetches, d)
  /\ UNCHANGED <<meta, clock, inFlightFetches, reqs, touchStat, uploads,
                 maxCacheSize, startup>>

\* The row is deleted (also when file.delete() threw), freedSize grows by
\* the selected size when the file was deleted; the loop goes on to the
\* next row, or ends.
PruneForget(i) ==
  /\ prunes[i].pc = "forget"
  /\ LET row == prunes[i].rows[1]
         rest == Tail(prunes[i].rows)
         freedSize == prunes[i].freed
                      + (IF prunes[i].ok /\ ~DbFails THEN row.size ELSE 0)
     IN /\ meta' = IF DbFails THEN meta
                  ELSE [meta EXCEPT ![row.sha256] = NoRow]
        /\ prunes' = [prunes EXCEPT ![i] =
             IF rest = <<>> \/ freedSize >= prunes[i].toFree
             THEN PruneReturned
             ELSE [@ EXCEPT !.pc = "unlink", !.rows = rest, !.freed = freedSize]]
  /\ UNCHANGED <<file, clock, inFlightFetches, fetches, reqs, touchStat,
                 uploads, maxCacheSize, startup>>

(***************************************************************************)
(* SpecPrune: uploads into a cache with a size ceiling.                    *)
(***************************************************************************)
MaxCacheSize == 4
MaxWrites == 3

InitPrune ==
  /\ file = [d \in Digests |-> NoFile]
  /\ meta = [d \in Digests |-> NoRow]
  /\ clock = 1
  /\ inFlightFetches = [d \in Digests |-> 0]
  /\ fetches = [f \in Fetches |-> NoFetch]
  /\ reqs = [r \in Reqs |-> NoReq]
  /\ touchStat = [d \in Digests |-> <<>>]
  /\ uploads = [u \in 1..MaxWrites |-> NoUpload]
  /\ maxCacheSize = MaxCacheSize
  /\ prunes = <<>>
  /\ startup = StartupDone

NextPrune ==
  \/ \E u \in 1..MaxWrites, body \in UpstreamBodies : UploadHash(u, body)
  \/ \E u \in 1..MaxWrites : UploadWrite(u)
  \/ \E u \in 1..MaxWrites : UploadRecord(u)
  \/ \E i \in DOMAIN prunes : PruneCheck(i)
  \/ \E i \in DOMAIN prunes : PruneStart(i)
  \/ \E i \in DOMAIN prunes : PruneUnlink(i)
  \/ \E i \in DOMAIN prunes : PruneForget(i)

SpecPrune == InitPrune /\ [][NextPrune]_vars

(***************************************************************************)
(* SpecPruneLive: uploads and a streamed fetch into a cache with a size    *)
(* ceiling.  Requests and uploads arrive when they like; every step that   *)
(* is pending after an await is run by the event loop sooner or later.     *)
(***************************************************************************)
MaxLiveUploads == 2

InitPruneLive ==
  /\ file = [d \in Digests |-> NoFile]
  /\ meta = [d \in Digests |-> NoRow]
  /\ clock = 1
  /\ inFlightFetches = [d \in Digests |-> 0]
  /\ fetches = [f \in Fetches |-> NoFetch]
  /\ reqs = [r \in Reqs |-> NoReq]
  /\ touchStat = [d \in Digests |-> <<>>]
  /\ uploads = [u \in 1..MaxLiveUploads |-> NoUpload]
  /\ maxCacheSize = MaxCacheSize
  /\ prunes = <<>>
  /\ startup = StartupDone

Arrival ==
  \/ \E u \in 1..MaxLiveUploads, body \in UpstreamBodies : UploadHash(u, body)
  \/ HandleBlobRequest(1, D, PlainGet)

Background ==
  \/ \E u \in 1..MaxLiveUploads : UploadWrite(u)
  \/ \E u \in 1..MaxLiveUploads : UploadRecord(u)
  \/ \E f \in Fetches : FetchStream(f, ValidBody, TRUE)
  \/ \E f \in Fetches : HashChunk(f)
  \/ \E f \in Fetches : UpstreamEOF(f)
  \/ \E f \in Fetches : CacheStart(f)
  \/ \E f \in Fetches : CacheWrite(f)
  \/ \E f \in Fetches : CacheClose(f)
  \/ \E f \in Fetches : HashValidation(f)
  \/ \E d \in Digests : TouchStat(d)
  \/ \E i \in DOMAIN prunes : PruneCheck(i)
  \/ \E i \in DOMAIN prunes : PruneStart(i)
  \/ \E i \in DOMAIN prunes : PruneUnlink(i)
  \/ \E i \in DOMAIN prunes : PruneForget(i)

NextPruneLive == Arrival \/ Background

SpecPruneLive ==
  InitPruneLive /\ [][NextPruneLive]_vars /\ WF_vars(Background)

(***************************************************************************)
(* SpecPruneTie: a cache whose rows were last accessed within the same     *)
(* millisecond (Date.now() has millisecond resolution), a prune call       *)
(* pending after the last write, and one more upload.                      *)
(***************************************************************************)
TieTimes == {1, 2}

InitPruneTie ==
  /\ \E cached \in SUBSET Digests, la \in [Digests -> TieTimes] :
       /\ file = [d \in Digests |->
                    IF d \in cached
                    THEN [exists |-> TRUE, data |-> BodyOf(d)] ELSE NoFile]
       /\ meta = [d \in Digests |->
                    IF d \in cached
                    THEN [present |-> TRUE, la |-> la[d],
                          size |-> Len(BodyOf(d)), up |-> la[d]]
                    ELSE NoRow]
  /\ clock = 3
  /\ inFlightFetches = [d \in Digests |-> 0]
  /\ fetches = [f \in Fetches |-> NoFetch]
  /\ reqs = [r \in Reqs |-> NoReq]
  /\ touchStat = [d \in Digests |-> <<>>]
  /\ uploads = [u \in 1..1 |-> NoUpload]
  /\ maxCacheSize = MaxCacheSize
  /\ prunes = <<NewPrune>>
  /\ startup = StartupDone

NextPruneTie ==
  \/ \E body \in UpstreamBodies : UploadHash(1, body)
  \/ UploadWrite(1)
  \/ UploadRecord(1)
  \/ \E i \in DOMAIN prunes : PruneCheck(i)
  \/ \E i \in DOMAIN prunes : PruneStart(i)
  \/ \E i \in DOMAIN prunes : PruneUnlink(i)
  \/ \E i \in DOMAIN prunes : PruneForget(i)

SpecPruneTie == InitPruneTie /\ [][NextPruneTie]_vars

(***************************************************************************)
(* SpecPruneWrite: a streamed fetch of D into a cache with a size ceiling  *)
(* of one byte, requests for D that arrive while the cache file is being   *)
(* written, and an upload of another blob whose write schedules a prune.   *)
(***************************************************************************)
InitPruneWrite ==
  /\ file = [d \in Digests |-> NoFile]
  /\ meta = [d \in Digests |-> NoRow]
  /\ clock = 1
  /\ inFlightFetches = [d \in Digests |-> 0]
  /\ fetches = [f \in Fetches |-> NoFetch]
  /\ reqs = [r \in Reqs |-> NoReq]
  /\ touchStat = [d \in Digests |-> <<>>]
  /\ uploads = [u \in 1..MaxUploads |-> NoUpload]
  /\ maxCacheSize = 1
  /\ prunes = <<>>
  /\ startup = StartupDone

NextPruneWrite ==
  \/ \E r \in Reqs :
       HandleBlobRequest(r, D, [method |-> "HEAD", range |-> <<>>,
                                inm |-> <<>>])
  \/ \E f \in Fetches : FetchStream(f, ValidBody, TRUE)
  \/ \E f \in Fetches : Pipeline(f)
  \/ \E d \in Digests : TouchStat(d)
  \/ \E u \in 1..MaxUploads : UploadHash(u, PoisonSwap)
  \/ \E u \in 1..MaxUploads : UploadWrite(u)
  \/ \E u \in 1..MaxUploads : UploadRecord(u)
  \/ \E i \in DOMAIN prunes : PruneCheck(i)
  \/ \E i \in DOMAIN prunes : PruneStart(i)
  \/ \E i \in DOMAIN prunes : PruneUnlink(i)
  \/ \E i \in DOMAIN prunes : PruneForget(i)

SpecPruneWrite == InitPruneWrite /\ [][NextPruneWrite]_vars

(***************************************************************************)
(* initializeCache() and rebuildDatabase() (cache.ts).  index.ts calls     *)
(* Bun.serve() first and awaits initializeCache() after it, so requests    *)
(* are handled at each await of the initialization.                        *)
(***************************************************************************)
DbFileName == <<".", "cache-metadata.db">>

\* readdir(CACHE_DIR): the names of the files of the cache directory.
Readdir(fl, s) ==
  {HexOf(d) : d \in {x \in Digests : fl[x].exists}}
    \cup (IF s.dbFile THEN {DbFileName} ELSE {})

\* if (filename.startsWith(".")) continue
NonDot(names) == {n \in names : n[1] # "."}

\* const sha256 = filename
Sha256OfName(n) == CHOOSE d \in Digests : HexOf(d) = n

\* stats.mtimeMs: the files of this specification were written before the
\* process started, when the clock stood at 0.
MtimeMs(fl, d) == 0

\* The row rebuildDatabase() inserts for a file.
RebuiltRow(fl, d) ==
  [present |-> TRUE, la |-> MtimeMs(fl, d), size |-> Len(fl[d].data),
   up |-> MtimeMs(fl, d) \div 1000]

\* await ensureCacheDir()
StartupMkdir ==
  /\ startup.pc = "mkdir"
  /\ startup' = [startup EXCEPT !.pc = "exists"]
  /\ UNCHANGED <<file, meta, clock, inFlightFetches, fetches, reqs, touchStat,
                 uploads, maxCacheSize, prunes>>

\* await dbFile.exists(), then initDatabase(); when the file was missing
\* rebuildDatabase() runs up to its readdir(): BEGIN TRANSACTION,
\* DELETE FROM cache_metadata.
StartupDbCheck ==
  /\ startup.pc = "exists"
  /\ LET dbExists == startup.dbFile
     IN IF dbExists
        THEN /\ startup' = [EnsureDatabase(startup) EXCEPT !.pc = "done"]
             /\ UNCHANGED meta
        ELSE /\ startup' = [EnsureDatabase(startup) EXCEPT !.pc = "readdir"]
             /\ meta' = [d \in Digests |-> NoRow]
  /\ UNCHANGED <<file, clock, inFlightFetches, fetches, reqs, touchStat,
                 uploads, maxCacheSize, prunes>>

\* await readdir(CACHE_DIR); the loop skips the dotfiles up to the first
\* stat(), or ends: COMMIT.
StartupReaddir ==
  /\ startup.pc = "readdir"
  /\ LET names == NonDot(Readdir(file, startup))
     IN startup' = [startup EXCEPT !.names = names,
                       !.pc = IF names = {} THEN "done" ELSE "stat"]
  /\ UNCHANGED <<file, meta, clock, inFlightFetches, fetches, reqs, touchStat,
                 uploads, maxCacheSize, prunes>>

\* await stat(filePath) and the INSERT OR REPLACE of the row; a file that
\* cannot be stat'ed is skipped.  After the last file: COMMIT.
StartupStat(n) ==
  /\ startup.pc = "stat"
  /\ n \in startup.names
  /\ LET d == Sha256OfName(n)
         rest == startup.names \ {n}
     IN /\ meta' = IF file[d].exists
                   THEN [meta EXCEPT ![d] = RebuiltRow(file, d)]
                   ELSE meta
        /\ startup' = [startup EXCEPT !.names = rest,
                          !.pc = IF rest = {} THEN "done" ELSE "stat"]
  /\ UNCHANGED <<file, clock, inFlightFetches, fetches, reqs, touchStat,
                 uploads, maxCacheSize, prunes>>

(***************************************************************************)
(* SpecRebuild: the process starts on a cache directory that holds some    *)
(* blobs and no .cache-metadata.db, and clients send requests from the     *)
(* moment the server listens.                                              *)
(***************************************************************************)
InitRebuild ==
  /\ file \in {fl \in [Digests -> {NoFile} \cup
                                    {[exists |-> TRUE, data |-> b] :
                                       b \in UpstreamBodies}] :
                  \A d \in Digests : fl[d].exists => fl[d].data = BodyOf(d)}
  /\ meta = [d \in Digests |-> NoRow]
  /\ clock = 1
  /\ inFlightFetches = [d \in Digests |-> 0]
  /\ fetches = [f \in Fetches |-> NoFetch]
  /\ reqs = [r \in Reqs |-> NoReq]
  /\ touchStat = [d \in Digests |-> <<>>]
  /\ uploads = [u \in 1..MaxUploads |-> NoUpload]
  /\ maxCacheSize = -1
  /\ prunes = <<>>
  /\ startup = [pc |-> "mkdir", dbFile |-> FALSE, names |-> {},
                dbFails |-> FALSE]

NextRebuild ==
  \/ StartupMkdir
  \/ StartupDbCheck
  \/ StartupReaddir
  \/ \E n \in startup.names : StartupStat(n)
  \/ \E r \in Reqs, d \in Digests, method \in {"GET", "HEAD"} :
       HandleBlobRequest(r, d, [method |-> method, range |-> <<>>, inm |-> <<>>])
  \/ \E f \in Fetches : FetchNoStream(f)
  \/ \E d \in Digests : TouchStat(d)

SpecRebuild == InitRebuild /\ [][NextRebuild]_vars

(***************************************************************************)
(* The fetch factory of handleBlobRequest() (handler.ts): the candidate    *)
(* servers are collected from the sx hints and the as hints, merged, and   *)
(* tried in order; then the fallback servers are tried (proxy.ts).         *)
(* A server is a string: a host, with or without a scheme in front.        *)
(***************************************************************************)
MaxHints == 2
MaxPubkeys == 2
MaxFallback == 1

Hosts == {"a", "b"}

Urls == {<<"https://", h>> : h \in Hosts}

ServerHints == Urls \cup {<<h>> : h \in Hosts}

SeqsUpTo(S, n) == UNION {[1..k -> S] : k \in 0..n}

\* normalizeServerUrlForMerge(server)
NormalizeServerUrlForMerge(server) ==
  IF server[1] \in {"http://", "https://"} THEN server
  ELSE <<"https://">> \o server

NormalizeAll(servers) ==
  [k \in 1..Len(servers) |-> NormalizeServerUrlForMerge(servers[k])]

\* A merge that turns the list around.
MergeReversed(servers) ==
  [k \in 1..Len(servers) |-> servers[Len(servers) + 1 - k]]

\* mergeBlossomServers(allServers): the servers without duplicates, in
\* first-seen order.
RECURSIVE MergeBlossomServers(_)
MergeBlossomServers(servers) ==
  IF servers = <<>> THEN <<>>
  ELSE LET front == MergeBlossomServers(SubSeq(servers, 1, Len(servers) - 1))
           last == servers[Len(servers)]
       IN IF \E k \in 1..Len(front) : front[k] = last THEN front
          ELSE Append(front, last)

\* The answers of a candidate server, and what fetchFromServer() makes of
\* them: the response when it is ok, else null.
Replies == {"ok_body", "ok_nobody", "not_found", "error", "timeout"}

FetchFromServer(reply) ==
  IF reply \in {"ok_body", "ok_nobody"}
  THEN [null |-> FALSE, ok |-> TRUE, body |-> reply = "ok_body"]
  ELSE [null |-> TRUE, ok |-> FALSE, body |-> FALSE]

\* response && response.ok && response.body
Usable(response) == ~response.null /\ response.ok /\ response.body

\* A factory that gives up at once.
GiveUp(fr) == [fr EXCEPT !.phase = "none"]

\* A loop over servers that has no server left falls through: to the loop
\* over FALLBACK_SERVERS, or to the end of the factory.
Advance(fr) ==
  IF fr.phase = "servers" /\ fr.queue = <<>>
  THEN IF fr.fallback # <<>>
       THEN [fr EXCEPT !.phase = "fallback", !.queue = fr.fallback]
       ELSE [fr EXCEPT !.phase = "none"]
  ELSE IF fr.phase = "fallback" /\ fr.queue = <<>>
       THEN [fr EXCEPT !.phase = "none"]
       ELSE fr

\* The factory starts: the sx hints are normalized; with as hints and
\* lookup relays the first resolveAuthorServers() is awaited, else the
\* servers are merged.
FactoryStart(f, hints, npub, relays, fallback) ==
  /\ fetches[f].st = "resolving"
  /\ fetches[f].phase = "new"
  /\ LET allServers == NormalizeAll(hints)
         fr == [fetches[f] EXCEPT !.hints = hints, !.relays = relays,
                                  !.fallback = fallback,
                                  !.allServers = allServers]
     IN fetches' = [fetches EXCEPT ![f] =
          IF npub > 0 /\ relays
          THEN [fr EXCEPT !.phase = "resolve", !.pubkeys = npub]
          ELSE Advance([fr EXCEPT !.phase = "servers",
                                  !.queue = MergeBlossomServers(allServers)])]
  /\ UNCHANGED <<file, meta, clock, inFlightFetches, reqs, touchStat, uploads,
                 maxCacheSize, prunes, startup>>

\* await resolveAuthorServers(pubkey): its servers (none on a failure or a
\* timeout) are appended; after the last pubkey the servers are merged.
AuthorResolved(f, authorServers) ==
  /\ fetches[f].st = "resolving"
  /\ fetches[f].phase = "resolve"
  /\ LET fr == [fetches[f] EXCEPT
                  !.allServers = @ \o NormalizeAll(authorServers),
                  !.resolved = Append(@, authorServers),
                  !.pubkeys = @ - 1]
     IN fetches' = [fetches EXCEPT ![f] =
          IF fr.pubkeys > 0 THEN fr
          ELSE Advance([fr EXCEPT !.phase = "servers",
                                  !.queue = MergeBlossomServers(fr.allServers)])]
  /\ UNCHANGED <<file, meta, clock, inFlightFetches, reqs, touchStat, uploads,
                 maxCacheSize, prunes, startup>>

\* await fetchFromServer(server, sha256, extension) for the next server of
\* the loop: a usable response ends the loops, else the loop goes on.
Contact(f, reply) ==
  /\ fetches[f].st = "resolving"
  /\ fetches[f].phase \in {"servers", "fallback"}
  /\ LET server == Head(fetches[f].queue)
         response == FetchFromServer(reply)
         fr == [fetches[f] EXCEPT !.contacted = Append(@, server),
                                  !.replies = Append(@, reply),
                                  !.queue = Tail(@)]
     IN fetches' = [fetches EXCEPT ![f] =
          IF Usable(response) THEN [fr EXCEPT !.phase = "found"]
          ELSE Advance(fr)]
  /\ UNCHANGED <<file, meta, clock, inFlightFetches, reqs, touchStat, uploads,
                 maxCacheSize, prunes, startup>>

(***************************************************************************)
(* SpecCandidates: a request for an uncached digest with sx and as hints,  *)
(* and a second request that arrives while the factory is running.         *)
(***************************************************************************)
NextCandidates ==
  \/ \E r \in Reqs :
       /\ IF r = 1 THEN TRUE ELSE inFlightFetches[D] # 0
       /\ HandleBlobRequest(r, D, PlainGet)
  \/ \E f \in Fetches :
       /\ fetches[f].st = "resolving" /\ fetches[f].phase = "new"
       /\ \E hints \in SeqsUpTo(ServerHints, MaxHints), npub \in 0..MaxPubkeys,
             relays \in BOOLEAN, fallback \in SeqsUpTo(Urls, MaxFallback) :
            FactoryStart(f, hints, npub, relays, fallback)
  \/ \E f \in Fetches, authorServers \in SeqsUpTo(Urls, 1) :
       AuthorResolved(f, authorServers)
  \/ \E f \in Fetches, reply \in Replies : Contact(f, reply)
  \/ \E f \in Fetches : fetches[f].phase = "found" /\ FetchStream(f, ValidBody, TRUE)
  \/ \E f \in Fetches : fetches[f].phase = "none" /\ FetchNoStream(f)

SpecCandidates == Init /\ [][NextCandidates]_vars

(***************************************************************************)
(* SpecWriteFail: clients of a digest whose upstream body is valid, and a  *)
(* cache writer whose write() may throw at any chunk.                      *)
(***************************************************************************)
NextWriteFail ==
  \/ \E r \in Reqs : HandleBlobRequest(r, D, PlainGet)
  \/ \E f \in Fetches, clenKnown \in BOOLEAN : FetchStream(f, ValidBody, clenKnown)
  \/ \E f \in Fetches : HashChunk(f)
  \/ \E f \in Fetches : UpstreamEOF(f)
  \/ \E f \in Fetches : CacheStart(f)
  \/ \E f \in Fetches : CacheWrite(f)
  \/ \E f \in Fetches : CacheWriteFail(f)
  \/ \E f \in Fetches : CacheClose(f)
  \/ \E f \in Fetches : HashValidation(f)
  \/ \E f \in Fetches : PurgeInvalid(f)
  \/ \E r \in Reqs : Deliver(r)
  \/ \E r \in Reqs : Finish(r)

SpecWriteFail == Init /\ [][NextWriteFail]_vars

(***************************************************************************)
(* SpecDisconnect: clients of a digest whose upstream body is valid and    *)
(* who may hang up at any point of the response body.  The event loop      *)
(* runs every step of the pipeline that is ready.                          *)
(***************************************************************************)
NextDisconnect ==
  \/ \E r \in Reqs : HandleBlobRequest(r, D, PlainGet)
  \/ \E f \in Fetches, clenKnown \in BOOLEAN : FetchStream(f, ValidBody, clenKnown)
  \/ \E f \in Fetches : Pipeline(f)
  \/ \E r \in Reqs : Subscriber(r)
  \/ \E r \in Reqs : Cancel(r)
  \/ \E d \in Digests : TouchStat(d)

SpecDisconnect ==
  /\ Init
  /\ [][NextDisconnect]_vars
  /\ WF_vars(\E f \in Fetches : Pipeline(f))

(***************************************************************************)
(* SpecRetry: requests for one digest whose fetches may end in any way:    *)
(* no candidate answers, the factory throws, the body is valid or not,     *)
(* the upstream body or the cache write breaks off.  Every await of the    *)
(* factory returns (fetchFromServer has a timeout), so a factory that      *)
(* has started finishes.                                                   *)
(***************************************************************************)
FactoryFinishes(f) ==
  \/ FetchNoStream(f)
  \/ FactoryThrows(f)
  \/ \E body \in UpstreamBodies : FetchStream(f, body, TRUE)

NextRetry ==
  \/ \E r \in Reqs : HandleBlobRequest(r, D, PlainGet)
  \/ \E f \in Fetches : FactoryFinishes(f)
  \/ \E f \in Fetches : Pipeline(f)
  \/ \E f \in Fetches : UpstreamError(f)
  \/ \E f \in Fetches : CacheWriteFail(f)
  \/ \E f \in Fetches : PurgeInvalid(f)
  \/ \E d \in Digests : TouchStat(d)

SpecRetry ==
  /\ Init
  /\ [][NextRetry]_vars
  /\ WF_vars(\E f \in Fetches : FactoryFinishes(f))

(***************************************************************************)
(* SpecUpstreamError: clients of a digest whose upstream body, valid or    *)
(* not, may break off at any point before its end.                         *)
(***************************************************************************)
NextUpstreamError ==
  \/ \E r \in Reqs : HandleBlobRequest(r, D, PlainGet)
  \/ \E f \in Fetches, body \in UpstreamBodies : FetchStream(f, body, TRUE)
  \/ \E f \in Fetches : Pipeline(f)
  \/ \E f \in Fetches : UpstreamError(f)
  \/ \E f \in Fetches : PurgeInvalid(f)
  \/ \E r \in Reqs : Subscriber(r)
  \/ \E r \in Reqs : StreamError(r)
  \/ \E d \in Digests : TouchStat(d)

SpecUpstreamError == Init /\ [][NextUpstreamError]_vars

(***************************************************************************)
(* SpecDeadline: fetches of one candidate server that may answer late or   *)
(* never, and whose body may stall at any byte, while time passes.         *)
(***************************************************************************)
NextDeadline ==
  \/ \E r \in Reqs : HandleBlobRequest(r, D, PlainGet)
  \/ \E f \in Fetches : FetchBegin(f)
  \/ \E f \in Fetches : Tick(f)
  \/ \E f \in Fetches : TimerFires(f)
  \/ \E f \in Fetches : fetches[f].timer = "fired" /\ FetchNoStream(f)
  \/ \E f \in Fetches, body \in UpstreamBodies :
       fetches[f].timer = "armed" /\ FetchStream(f, body, TRUE)
  \/ \E f \in Fetches : Pipeline(f)
  \/ \E f \in Fetches : PurgeInvalid(f)
  \/ \E d \in Digests : TouchStat(d)

SpecDeadline == Init /\ [][NextDeadline]_vars

(***************************************************************************)
(* SpecHead: GET and HEAD requests for a digest whose upstream body is     *)
(* valid.  The event loop runs every step of the pipeline that is ready.   *)
(***************************************************************************)
NextHead ==
  \/ \E r \in Reqs, method \in {"GET", "HEAD"} :
       HandleBlobRequest(r, D, [method |-> method, range |-> <<>>, inm |-> <<>>])
  \/ \E f \in Fetches, clenKnown \in BOOLEAN : FetchStream(f, ValidBody, clenKnown)
  \/ \E f \in Fetches : Pipeline(f)
  \/ \E r \in Reqs : Subscriber(r)
  \/ \E d \in Digests : TouchStat(d)

SpecHead ==
  /\ Init
  /\ [][NextHead]_vars
  /\ WF_vars(\E f \in Fetches : Pipeline(f))

(***************************************************************************)
(* SpecSlicer: the range stream of the miss path, for every body of up to  *)
(* MaxSliceLen bytes, every way to split it into chunks and every valid    *)
(* range.  The request has been attached to the stream of its fetch and    *)
(* the chunks of the body wait in its branch.                              *)
(***************************************************************************)
MaxSliceLen == 4

SliceBodies == UNION {[1..n -> Bytes] : n \in 1..MaxSliceLen}

RECURSIVE SumSeq(_)
SumSeq(c) == IF c = <<>> THEN 0 ELSE Head(c) + SumSeq(Tail(c))

Chunkings(n) == {c \in SeqsUpTo(1..n, n) : SumSeq(c) = n}

\* Range: bytes=<start>-<end>, or bytes=<start>- when end is -1.
RangeHeaderOf(start, end) ==
  <<"bytes=">> \o ToDecimal(start) \o <<"-">>
    \o (IF end = -1 THEN <<>> ELSE ToDecimal(end))

InitSlicer ==
  /\ file = [d \in Digests |-> NoFile]
  /\ meta = [d \in Digests |-> NoRow]
  /\ clock = 1
  /\ inFlightFetches = [d \in Digests |-> 0]
  /\ touchStat = [d \in Digests |-> <<>>]
  /\ uploads = [u \in 1..MaxUploads |-> NoUpload]
  /\ maxCacheSize = -1
  /\ prunes = <<>>
  /\ startup = StartupDone
  /\ \E body \in SliceBodies :
       \E chunks \in Chunkings(Len(body)), start \in 0..(Len(body) - 1),
          end \in -1..(Len(body) - 1) :
         LET shape == [method |-> "GET", range |-> RangeHeaderOf(start, end),
                       inm |-> <<>>]
             req == [Received(NoReq, D, shape) EXCEPT
                       !.pc = "wait", !.path = "miss", !.f = 1,
                       !.len = Len(body)]
         IN /\ end = -1 \/ start <= end
            /\ reqs = [r \in Reqs |->
                         IF r = 1 THEN Attach(req, body, TRUE) ELSE NoReq]
            /\ fetches = [f \in Fetches |->
                 IF f = 1
                 THEN [NoFetch EXCEPT
                         !.st = "streaming", !.d = D, !.body = body,
                         !.clen = TRUE, !.creator = 1, !.chunks = chunks,
                         !.hashed = Len(body), !.h = HashOf(body),
                         !.upst = "eof", !.w = "init", !.purge = "armed",
                         !.timer = "cleared"]
                 ELSE NoFetch]

NextSlicer ==
  \/ \E r \in Reqs : PumpRead(r)
  \/ \E r \in Reqs : Finish(r)

SpecSlicer == InitSlicer /\ [][NextSlicer]_vars

(***************************************************************************)
(* SpecRangeFallback: GET requests with Range headers of which some do     *)
(* not match the byte-range pattern, for a digest whose upstream may or    *)
(* may not send a Content-Length.                                          *)
(***************************************************************************)
FallbackRanges ==
  { <<"bytes=", "-", "1">>,
    <<"bytes=", "1", "-">>,
    <<"1", "-", "1">>,
    <<"bytes=", ",">> }

NextRangeFallback ==
  \/ \E r \in Reqs, h \in FallbackRanges :
       HandleBlobRequest(r, D, [method |-> "GET", range |-> h, inm |-> <<>>])
  \/ \E f \in Fetches, clenKnown \in BOOLEAN : FetchStream(f, ValidBody, clenKnown)
  \/ \E f \in Fetches : Pipeline(f)
  \/ \E r \in Reqs : Subscriber(r)
  \/ \E d \in Digests : TouchStat(d)

SpecRangeFallback == Init /\ [][NextRangeFallback]_vars

(***************************************************************************)
(* fetchFromServer() and the redirects of the upstream.  URLs are          *)
(* numbered; all of them contain the digest but the last.  The upstream    *)
(* web gives every URL one response: 200, 404, 500, a redirect that        *)
(* fetch() follows on its own (301, 302, 303, 307, 308 with a Location:    *)
(* fetch() is called without a redirect option, which means "follow"), or  *)
(* another 3xx with a Location, which fetch() hands to the caller.         *)
(***************************************************************************)
NUrls == 4

RedirectUrls == 1..NUrls

MAX_REDIRECTS == 1

\* The redirects the runtime's fetch() follows before it rejects.
FetchRedirectLimit == 2

\* location.includes(sha256)
IncludesSha(u) == u # NUrls

\* `${serverUrl.replace(/\/$/, "")}${path}`: the URL with the path of the
\* blob appended, another URL, which contains the digest.
WithPath(u) == IF u + 1 < NUrls THEN u + 1 ELSE 1

Responses ==
  { [kind |-> k, location |-> 0] : k \in {"ok", "not_found", "error"} }
  \cup { [kind |-> k, location |-> u] : k \in {"redirect", "other3xx"},
                                        u \in RedirectUrls }

\* normalizeServerUrl(server): one URL for a server with a protocol, else
\* the https and the http URL; fetchFromServer() appends the path to each.
NormalizeServerUrl(withProtocol) ==
  IF withProtocol THEN <<1>> ELSE <<1, 2>>

InitRedirect ==
  /\ file = [d \in Digests |-> NoFile]
  /\ meta = [d \in Digests |-> NoRow]
  /\ clock = 1
  /\ inFlightFetches = [d \in Digests |-> 0]
  /\ touchStat = [d \in Digests |-> <<>>]
  /\ uploads = [u \in 1..MaxUploads |-> NoUpload]
  /\ maxCacheSize = -1
  /\ prunes = <<>>
  /\ startup = StartupDone
  /\ reqs = [r \in Reqs |-> NoReq]
  /\ \E web \in [RedirectUrls -> Responses], withProtocol \in BOOLEAN :
       fetches = [f \in Fetches |->
         IF f = 1
         THEN [NoFetch EXCEPT
                 !.proxy = [NoProxy EXCEPT
                              !.pc = "enter", !.web = web,
                              !.servers = NormalizeServerUrl(withProtocol)]]
         ELSE NoFetch]

ProxyStep(f, px) ==
  /\ fetches' = [fetches EXCEPT ![f].proxy = px]
  /\ UNCHANGED <<file, meta, clock, inFlightFetches, reqs, touchStat, uploads,
                 maxCacheSize, prunes, startup>>

\* proxy.ts:30-34: too many redirects, else the URLs to try.
ProxyEnter(f) ==
  LET px == fetches[f].proxy
  IN /\ px.pc = "enter"
     /\ IF px.redirectCount > MAX_REDIRECTS
        THEN ProxyStep(f, [px EXCEPT !.pc = "returned", !.result = "null"])
        ELSE ProxyStep(f, [px EXCEPT !.pc = "loop"])

\* proxy.ts:36-53, 92: the next URL is fetched, or null after the last one.
ProxyNext(f) ==
  LET px == fetches[f].proxy
  IN /\ px.pc = "loop"
     /\ IF px.servers = <<>>
        THEN ProxyStep(f, [px EXCEPT !.pc = "returned", !.result = "null"])
        ELSE ProxyStep(f, [px EXCEPT
               !.pc = "fetch", !.url = Head(px.servers),
               !.servers = Tail(px.servers), !.followed = 0,
               !.hops = IF px.redirectCount = 0 THEN 0 ELSE px.hops,
               !.swapped = IF px.redirectCount = 0 THEN FALSE
                           ELSE px.swapped])

\* await fetch(url, {headers, signal}): the runtime follows a redirect to
\* its Location, whatever the Location is, and rejects after too many; any
\* other response resolves the promise.
RuntimeFetch(f) ==
  LET px == fetches[f].proxy
      r == px.web[px.url]
  IN /\ px.pc = "fetch"
     /\ IF r.kind = "redirect"
        THEN IF px.followed < FetchRedirectLimit
             THEN ProxyStep(f, [px EXCEPT
                    !.url = r.location, !.followed = px.followed + 1,
                    !.hops = px.hops + 1,
                    !.swapped = px.swapped \/ ~IncludesSha(r.location)])
             ELSE ProxyStep(f, [px EXCEPT !.pc = "loop"])
        ELSE ProxyStep(f, [px EXCEPT !.pc = "check", !.response = r])

\* proxy.ts:47, 78-89: the timeout aborts the fetch(), and the next URL
\* is tried.
ProxyAbort(f) ==
  LET px == fetches[f].proxy
  IN /\ px.pc = "fetch"
     /\ ProxyStep(f, [px EXCEPT !.pc = "loop"])

\* proxy.ts:55-77: a 3xx response whose Location includes the digest is
\* followed by a recursive call; an ok response is returned; 404 tries the
\* next URL; anything else returns null.
ProxyCheck(f) ==
  LET px == fetches[f].proxy
      r == px.response
  IN /\ px.pc = "check"
     /\ IF r.kind = "other3xx" /\ IncludesSha(r.location)
        THEN ProxyStep(f, [px EXCEPT
               !.pc = "enter", !.redirectCount = px.redirectCount + 1,
               !.servers = <<WithPath(r.location)>>,
               !.hops = px.hops + 1])
        ELSE IF r.kind = "ok"
        THEN ProxyStep(f, [px EXCEPT !.pc = "returned",
                                     !.result = "response"])
        ELSE IF r.kind = "not_found"
        THEN ProxyStep(f, [px EXCEPT !.pc = "loop"])
        ELSE ProxyStep(f, [px EXCEPT !.pc = "returned", !.result = "null"])

NextRedirect ==
  \/ \E f \in Fetches : ProxyEnter(f)
  \/ \E f \in Fetches : ProxyNext(f)
  \/ \E f \in Fetches : RuntimeFetch(f)
  \/ \E f \in Fetches : ProxyAbort(f)
  \/ \E f \in Fetches : ProxyCheck(f)

SpecRedirect == InitRedirect /\ [][NextRedirect]_vars

(***************************************************************************)
(* SpecTouch: uploads, deletions and requests for the uploaded blobs, with *)
(* the access-time touches of the cache hits.                              *)
(***************************************************************************)
NextTouch ==
  \/ \E u \in 1..MaxUploads, body \in UpstreamBodies : UploadHash(u, body)
  \/ \E u \in 1..MaxUploads : UploadWrite(u)
  \/ \E u \in 1..MaxUploads : UploadRecord(u)
  \/ \E r \in Reqs, d \in Digests, method \in {"GET", "HEAD"} :
       HandleBlobRequest(r, d, [method |-> method, range |-> <<>>, inm |-> <<>>])
  \/ \E r \in Reqs, d \in Digests : HandleDeleteRequest(r, d)
  \/ \E r \in Reqs : DeleteRow(r)
  \/ \E f \in Fetches : FetchNoStream(f)
  \/ \E d \in Digests : TouchStat(d)

SpecTouch == Init /\ [][NextTouch]_vars

(***************************************************************************)
(* SpecMetaFail: GET and HEAD for a digest that is cached or not, with an  *)
(* upstream that has the blob or not, a size limit below the size of the   *)
(* blob, and a metadata database that works or fails in every operation.   *)
(* A request arrives when the cache writer of the fetch before it is done. *)
(***************************************************************************)
InitMetaFail ==
  /\ clock = 1
  /\ inFlightFetches = [d \in Digests |-> 0]
  /\ fetches = [f \in Fetches |-> NoFetch]
  /\ reqs = [r \in Reqs |-> NoReq]
  /\ touchStat = [d \in Digests |-> <<>>]
  /\ uploads = [u \in 1..MaxUploads |-> NoUpload]
  /\ maxCacheSize = 1
  /\ prunes = <<>>
  /\ \E cached, recorded, dbFails \in BOOLEAN :
       /\ file = [d \in Digests |->
                    IF cached /\ d = D
                    THEN [exists |-> TRUE, data |-> ValidBody] ELSE NoFile]
       /\ meta = [d \in Digests |->
                    IF cached /\ recorded /\ d = D
                    THEN [present |-> TRUE, la |-> 0, size |-> Len(ValidBody),
                          up |-> -1]
                    ELSE NoRow]
       /\ startup = [StartupDone EXCEPT !.dbFails = dbFails]

NextMetaFail ==
  \/ \E r \in Reqs, method \in {"GET", "HEAD"} :
       /\ \A f \in Fetches : fetches[f].st = "unused" \/ fetches[f].cwDone
       /\ HandleBlobRequest(r, D, [method |-> method, range |-> <<>>,
                                   inm |-> <<>>])
  \/ \E f \in Fetches : FetchNoStream(f)
  \/ \E f \in Fetches : FetchStream(f, ValidBody, TRUE)
  \/ \E f \in Fetches : Pipeline(f)
  \/ \E r \in Reqs : Subscriber(r)
  \/ \E d \in Digests : TouchStat(d)
  \/ \E i \in DOMAIN prunes : PruneCheck(i)
  \/ \E i \in DOMAIN prunes : PruneStart(i)
  \/ \E i \in DOMAIN prunes : PruneUnlink(i)
  \/ \E i \in DOMAIN prunes : PruneForget(i)

SpecMetaFail == InitMetaFail /\ [][NextMetaFail]_vars

(***************************************************************************)
(* SpecMetaDisk: HEAD requests, with fetches from an upstream whose body   *)
(* may be another blob and cache hits, an upload, DELETE requests and      *)
(* pruning, without a size limit or with one below the size of a blob.     *)
(***************************************************************************)
InitMetaDisk ==
  /\ file = [d \in Digests |-> NoFile]
  /\ meta = [d \in Digests |-> NoRow]
  /\ clock = 1
  /\ inFlightFetches = [d \in Digests |-> 0]
  /\ fetches = [f \in Fetches |-> NoFetch]
  /\ reqs = [r \in Reqs |-> NoReq]
  /\ touchStat = [d \in Digests |-> <<>>]
  /\ uploads = [u \in 1..MaxUploads |-> NoUpload]
  /\ maxCacheSize \in {-1, 1}
  /\ prunes = <<>>
  /\ startup = StartupDone

NextMetaDisk ==
  \/ \E r \in Reqs :
       HandleBlobRequest(r, D, [method |-> "HEAD", range |-> <<>>,
                                inm |-> <<>>])
  \/ \E r \in Reqs : HandleDeleteRequest(r, D)
  \/ \E r \in Reqs : DeleteRow(r)
  \/ \E f \in Fetches, body \in {ValidBody, PoisonSwap} :
       FetchStream(f, body, TRUE)
  \/ \E f \in Fetches : Pipeline(f)
  \/ \E f \in Fetches : PurgeInvalid(f)
  \/ \E d \in Digests : TouchStat(d)
  \/ \E u \in 1..MaxUploads : UploadHash(u, ValidBody)
  \/ \E u \in 1..MaxUploads : UploadWrite(u)
  \/ \E u \in 1..MaxUploads : UploadRecord(u)
  \/ \E i \in DOMAIN prunes : PruneCheck(i)
  \/ \E i \in DOMAIN prunes : PruneStart(i)
  \/ \E i \in DOMAIN prunes : PruneUnlink(i)
  \/ \E i \in DOMAIN prunes : PruneForget(i)

SpecMetaDisk == InitMetaDisk /\ [][NextMetaDisk]_vars

(***************************************************************************)
(* Deduplication.                                                          *)
(***************************************************************************)

\* C1: when clients concurrently request the same uncached digest (each
\* request arrives while an earlier request for the digest is still being
\* served), exactly one upstream fetch is issued: the fetch factory never
\* starts for a digest while another request for it is being served.
C1_SingleFetch == \A f \in Fetches : ~fetches[f].overlap

\* C2: every request that obtained the handle of a fetch with a stream
\* attaches its own branch and gets a success response; a complete plain
\* GET body is the upstream byte sequence in upstream order.
C2_FanOut ==
  \A r \in Reqs :
    (reqs[r].path = "miss" /\ reqs[r].f # 0
       /\ fetches[reqs[r].f].st = "streaming") =>
      /\ reqs[r].status # 500
      /\ (reqs[r].pc = "done" /\ reqs[r].end = "ok" /\ reqs[r].status = 200
            /\ reqs[r].method = "GET")
           => reqs[r].body = fetches[reqs[r].f].body

(***************************************************************************)
(* Integrity of the cache.                                                 *)
(***************************************************************************)

\* A fetch whose upstream body ended, whose cache write was closed and
\* whose digest was validated.
FetchSucceeded(f) ==
  /\ fetches[f].st = "streaming"
  /\ fetches[f].upst = "eof"
  /\ fetches[f].w = "closed"
  /\ fetches[f].valid = "true"

OnlySuccesses ==
  /\ \A f \in Fetches : fetches[f].st = "unused" \/ FetchSucceeded(f)
  /\ \A u \in DOMAIN uploads : uploads[u].pc \in {"idle", "skipped", "done"}

\* C3: after any sequence of successful fetches and uploads, every file
\* <cache_dir>/D that is present has content whose SHA-256 is D.
C3_DigestIntegrity ==
  OnlySuccesses =>
    \A d \in Digests : file[d].exists => HashOf(file[d].data) = d

\* Two overlapping fetches and an upload of the same digest have all
\* succeeded, and the file is there.
C3_Witness ==
  /\ OnlySuccesses
  /\ \A f \in Fetches : FetchSucceeded(f)
  /\ \E f \in Fetches : fetches[f].overlap
  /\ \E u \in DOMAIN uploads : uploads[u].pc = "done"
  /\ file[D].exists

\* The upstream body of the fetch has been received to its end and hashes
\* to another value than the digest asked for.
Poisoned(fs, f) ==
  /\ fs[f].st = "streaming"
  /\ fs[f].upst = "eof"
  /\ HashOf(fs[f].body) # fs[f].d

\* The fetch has settled: hashValidation has resolved, and on false the
\* handler's purge has run.
Settled(fs, f) ==
  /\ fs[f].valid # "pending"
  /\ fs[f].valid = "false" => fs[f].purge = "done"

\* The step at which a poisoned fetch becomes settled.
PoisonSettles(f) ==
  /\ Poisoned(fetches', f) /\ Settled(fetches', f)
  /\ ~(Poisoned(fetches, f) /\ Settled(fetches, f))

\* C4: when the upstream body of a miss-path fetch of D hashes to another
\* value than D, then once the fetch has settled <cache_dir>/D does not
\* exist (checkCache(D) finds nothing).
C4_PoisonFileGone ==
  [][\A f \in Fetches : PoisonSettles(f) => ~file'[fetches[f].d].exists]_vars

\* C5: when the upstream body of a miss-path fetch of D hashes to another
\* value than D, then once the fetch has settled there is no
\* cache_metadata row for D.
C5_PoisonRowGone ==
  [][\A f \in Fetches : PoisonSettles(f) => ~meta'[fetches[f].d].present]_vars

(***************************************************************************)
(* Conditional requests and ranges.                                        *)
(***************************************************************************)

\* The list holds the ETag of the digest, weak-prefixed or not.
InmMatches(l, d) == \E k \in 1..Len(l) : l[k].tag = GenerateETag(d)

\* The header values that match the ETag of a digest.
MatchingInm ==
  [d \in FetchDigests |->
     {RenderInm(l) : l \in {x \in InmLists : InmMatches(x, d)}}]

\* C6: a GET or HEAD for D whose If-None-Match value matches the ETag "D"
\* (quoted, weak-prefixed, or one element of a comma-separated list) and
\* that has no Range header is answered 304 with ETag "D" and the immutable
\* cache-control header; so a GET answered 200 with ETag "D", followed by
\* a GET with that ETag as If-None-Match, is answered 304.
C6_ETagRoundTrip ==
  /\ \A r \in Reqs :
       (/\ reqs[r].pc # "idle"
        /\ reqs[r].rangeHeader = <<>>
        /\ reqs[r].inm \in MatchingInm[reqs[r].d])
       => /\ reqs[r].status = 304
          /\ reqs[r].etag = <<"\"">> \o HexOf(reqs[r].d) \o <<"\"">>
          /\ reqs[r].cc = "public, max-age=31536000, immutable"
  /\ (/\ reqs[1].method = "GET" /\ reqs[1].status = 200
      /\ reqs[2].pc # "idle" /\ reqs[2].method = "GET"
      /\ reqs[2].d = reqs[1].d
      /\ reqs[2].rangeHeader = <<>>
      /\ reqs[2].inm = reqs[1].etag)
     => reqs[2].status = 304

\* A GET was answered 200 from the cache, and a request whose list holds
\* another tag and then the weak-prefixed, padded ETag was answered 304.
C6_Witness ==
  /\ reqs[1].method = "GET" /\ reqs[1].status = 200
  /\ reqs[2].status = 304
  /\ reqs[2].inm = <<"\"">> \o HexOf(HashOf(PoisonSwap))
                     \o <<"\"", ",", " ", "W", "/", "\"">> \o HexOf(D)
                     \o <<"\"", " ">>

\* C7: for a cached blob of size N and a range a-b (or a- with b = N-1)
\* with 0 <= a <= b < N, a GET is answered 206 with bytes [a, b+1) of the
\* body of a plain GET, Content-Range `bytes a-b/N` and Content-Length
\* b-a+1.
C7_RangeOnHit ==
  \A r \in Reqs :
    (reqs[r].pc = "done" /\ reqs[r].path = "hit" /\ reqs[r].method = "GET") =>
      LET etag == GenerateETag(reqs[r].d)
          plain == HandleCachedFile(file[reqs[r].d].data, "GET", <<>>, etag).body
          N == Len(plain)
      IN \A a \in 0..(N - 1), b \in 0..(N - 1) :
           (/\ a <= b
            /\ \/ reqs[r].rangeHeader =
                    <<"bytes=">> \o ToDecimal(a) \o <<"-">> \o ToDecimal(b)
               \/ /\ b = N - 1
                  /\ reqs[r].rangeHeader = <<"bytes=">> \o ToDecimal(a) \o <<"-">>)
           => /\ reqs[r].status = 206
              /\ reqs[r].body = SubSeq(plain, a + 1, b + 1)
              /\ reqs[r].crange =
                   <<"bytes ">> \o ToDecimal(a) \o <<"-">> \o ToDecimal(b)
                     \o <<"/">> \o ToDecimal(N)
              /\ reqs[r].clength = b - a + 1

\* Bytes 1-2 of the blob of three bytes were served.
C7_Witness ==
  /\ reqs[1].pc = "done" /\ reqs[1].path = "hit"
  /\ reqs[1].rangeHeader = <<"bytes=", "1", "-", "2">>
  /\ reqs[1].status = 206
  /\ reqs[1].body = <<2, 1>>

\* The range of a matched Range header lies outside a blob of len bytes.
RangeOutside(range, len) ==
  \/ range[1] >= len
  \/ Len(range) = 2 /\ (range[2] >= len \/ range[1] > range[2])

\* C8: a GET with `Range: bytes=start-[end]` against a blob whose total
\* length len is known is answered 416 `Range not satisfiable` whenever
\* start >= len, end >= len or start > end, on the cache-hit path and on
\* the miss path alike (and so never 206).
C8_InvalidRange ==
  \A r \in Reqs :
    (/\ reqs[r].pc \notin {"idle", "wait"}
     /\ reqs[r].method = "GET"
     /\ reqs[r].range # <<>>
     /\ reqs[r].len >= 0
     /\ RangeOutside(reqs[r].range, reqs[r].len))
    => reqs[r].status = 416 /\ reqs[r].reason = "Range not satisfiable"

(***************************************************************************)
(* The size ceiling.                                                       *)
(***************************************************************************)

\* The step with which a pruneCache() run that found the size above the
\* ceiling returns.
PruneCompletes(i) == prunes[i].pc = "forget" /\ prunes'[i].pc = "done"

\* C9: with a size ceiling S, immediately after a pruneCache() run that
\* found size_total > S completes, size_total is at most 0.9 * S.
C9_PruneBound ==
  [][\A i \in DOMAIN prunes :
       PruneCompletes(i) => GetCacheSize(meta') * 10 <= maxCacheSize * 9]_vars

PruneEvicts(i) ==
  /\ prunes[i].pc = "unlink"
  /\ prunes'[i].pc = "forget"
  /\ prunes'[i].ok

\* C11: pruneCache() evicts in ascending last_accessed order: a blob is
\* never evicted while a blob with a strictly smaller last_accessed stays
\* in the cache.
C11_LruOrder ==
  [][\A i \in DOMAIN prunes :
       PruneEvicts(i) =>
         LET d == prunes[i].rows[1].sha256
         IN \A e \in Digests :
              (meta[d].present /\ meta[e].present) => meta[e].la >= meta[d].la]_vars

(***************************************************************************)
(* The metadata rebuild.                                                   *)
(***************************************************************************)

\* The step with which initializeCache() returns.
StartupReturns == startup.pc # "done" /\ startup'.pc = "done"

\* Sum of stat(file).size over the files of the cache directory.
RECURSIVE SumFileSizes(_, _)
SumFileSizes(fl, ds) ==
  IF ds = {} THEN 0
  ELSE LET d == CHOOSE x \in ds : TRUE
       IN (IF fl[d].exists THEN Len(fl[d].data) ELSE 0)
            + SumFileSizes(fl, ds \ {d})

\* C12: when initializeCache() has run on a cache directory whose
\* .cache-metadata.db was deleted, the metadata holds exactly one row per
\* non-dotfile of the directory, size_total is the sum of the files' sizes,
\* and the initialization removes no file (what was retrievable stays so).
C12_RebuildFidelity ==
  [][/\ StartupReturns =>
          /\ \A d \in Digests : meta'[d].present <=> file'[d].exists
          /\ GetCacheSize(meta') = SumFileSizes(file', Digests)
     /\ startup'.pc # startup.pc => file' = file]_vars

(***************************************************************************)
(* The candidate servers.                                                  *)
(***************************************************************************)

\* The concatenation of a sequence of sequences.
RECURSIVE Flatten(_)
Flatten(ss) ==
  IF ss = <<>> THEN <<>>
  ELSE Flatten(SubSeq(ss, 1, Len(ss) - 1)) \o ss[Len(ss)]

\* The list without the elements that stand earlier in it.
FirstSeen(l) ==
  LET keep == {k \in 1..Len(l) : \A j \in 1..(k - 1) : l[j] # l[k]}
      Nth(n) == CHOOSE k \in keep : Cardinality({j \in keep : j < k}) = n - 1
  IN [n \in 1..Cardinality(keep) |-> Nth(n)]

\* The candidates of a fetch in the order of the contract: the sx hints
\* with https in front of a bare host, then the servers of each as pubkey,
\* each server once, then the fallback servers.
CandidateOrder(fr) ==
  LET hinted == [k \in 1..Len(fr.hints) |->
                   IF Len(fr.hints[k]) = 1 THEN <<"https://">> \o fr.hints[k]
                   ELSE fr.hints[k]]
      l == hinted \o Flatten(fr.resolved)
      idx == FirstSeen(l)
  IN [n \in 1..Len(idx) |-> l[idx[n]]] \o fr.fallback

\* C14: on a miss the candidates are contacted one after the other in the
\* order sx hints, servers of the as pubkeys (resolved only with lookup
\* relays configured), fallback servers; the first candidate that answers
\* successfully with a body ends the iteration, no later one is contacted.
C14_CandidateOrder ==
  \A f \in Fetches :
    LET fr == fetches[f]
        n == Len(fr.contacted)
    IN fr.phase \notin {"new", "resolve"} =>
         /\ n <= Len(CandidateOrder(fr))
         /\ fr.contacted = SubSeq(CandidateOrder(fr), 1, n)
         /\ \A k \in 1..(n - 1) : fr.replies[k] # "ok_body"
         /\ (~fr.relays) => fr.resolved = <<>>
         /\ fr.st = "streaming" => n >= 1 /\ fr.replies[n] = "ok_body"

\* A bare-host hint and the same server as a URL, two pubkeys of which the
\* second names a new server, and a fallback server: the hint failed, the
\* author's server failed, the fallback server answered with the body.
C14_Witness ==
  \E f \in Fetches :
    /\ fetches[f].st = "streaming"
    /\ fetches[f].hints = << <<"a">>, <<"https://", "a">> >>
    /\ fetches[f].resolved = << <<<<"https://", "a">>>>, <<<<"https://", "b">>>> >>
    /\ fetches[f].contacted =
         << <<"https://", "a">>, <<"https://", "b">>, <<"https://", "a">> >>
    /\ fetches[f].replies = <<"timeout", "not_found", "ok_body">>

\* Every candidate of the fetch has been contacted and none has answered
\* with a usable response (or there was no candidate).
Exhausted(fr) ==
  /\ fr.phase \notin {"new", "resolve"}
  /\ fr.contacted = CandidateOrder(fr)
  /\ \A k \in 1..Len(fr.replies) : fr.replies[k] # "ok_body"

\* C15: when the candidate list is empty or every candidate has failed
\* (transport error, timeout, 404, another non-success answer), each
\* request waiting on the fetch is answered 404 `Blob not found`; while a
\* candidate remains untried no waiting request has been answered, so the
\* failure of one candidate alone gives no error response.
C15_ExhaustionGives404 ==
  \A r \in Reqs :
    reqs[r].path = "miss" =>
      LET fr == fetches[reqs[r].f]
      IN /\ fr.st = "nostream" =>
              /\ Exhausted(fr)
              /\ reqs[r].status = 404 /\ reqs[r].reason = "Blob not found"
         /\ fr.st = "resolving" => reqs[r].pc = "wait" /\ reqs[r].status = 0
         /\ reqs[r].status = 404 => Exhausted(fr)

\* Two requests waited on a fetch whose hint timed out, whose author's
\* server had a transport error and whose fallback server answered 404;
\* both were answered 404.
C15_Witness ==
  /\ \A r \in Reqs : reqs[r].status = 404 /\ reqs[r].f = 1
  /\ fetches[1].replies = <<"timeout", "error", "not_found">>
  /\ Len(fetches[1].hints) = 1 /\ Len(fetches[1].resolved) = 1
  /\ Len(fetches[1].fallback) = 1

(***************************************************************************)
(* Miss, then hit.                                                         *)
(***************************************************************************)

\* A request arrives for a digest of which a fetch has succeeded.
ArrivesAfterSuccess(r) ==
  /\ reqs[r].pc = "idle"
  /\ reqs'[r].pc # "idle"
  /\ \E f \in Fetches : FetchSucceeded(f) /\ fetches[f].d = reqs'[r].d

\* C13: after a miss-path fetch of D has completed with a valid digest,
\* <cache_dir>/D exists, and every later GET or HEAD for D is answered
\* from the cache file: no fetch factory starts and no in-flight entry is
\* created.
C13_MissThenHit ==
  /\ [](\A f \in Fetches : FetchSucceeded(f) => file[fetches[f].d].exists)
  /\ [][\A r \in Reqs :
          ArrivesAfterSuccess(r) =>
            /\ reqs'[r].path = "hit"
            /\ inFlightFetches' = inFlightFetches
            /\ fetches' = fetches]_vars

(***************************************************************************)
(* Failures of the cache write, and clients that hang up.                  *)
(***************************************************************************)

\* C16: when writing the cache file fails at a chunk of a miss-path fetch,
\* the cacheWrite future still resolves, every client still receives
\* status 200 with the complete, unmodified upstream body (its body never
\* breaks off), and no metadata row for D is created.
C16_WriteFailTolerated ==
  \A f \in Fetches :
    fetches[f].w = "errored" =>
      /\ fetches[f].cwDone
      /\ ~meta[fetches[f].d].present
      /\ \A r \in Reqs :
           (reqs[r].path = "miss" /\ reqs[r].f = f /\ reqs[r].pc \in {"stream", "done"})
           => /\ reqs[r].status = 200
              /\ reqs[r].pc = "done" =>
                   reqs[r].end = "ok" /\ reqs[r].body = fetches[f].body


\* C17: when a client cancels its response body in the middle of a
\* miss-path fetch, the upstream read, the hashing and the cache write of
\* that fetch go on to the end of the body: the fetch validates and the
\* cache file of D holds the blob whose digest is D.
C17_DisconnectKeepsFetch ==
  \A r \in Reqs :
    (reqs[r].end = "cancelled")
      ~> (/\ reqs[r].f \in Fetches
          /\ FetchSucceeded(reqs[r].f)
          /\ fetches[reqs[r].f].hashed = Len(fetches[reqs[r].f].body)
          /\ file[D].exists
          /\ HashOf(file[D].data) = D)

\* The only client of fetch 1 has hung up before the end of the body, and
\* the blob is in the cache.
C17_Witness ==
  /\ reqs[1].end = "cancelled"
  /\ reqs[1].got < Len(fetches[1].body)
  /\ reqs[2] = NoReq
  /\ FetchSucceeded(1)
  /\ file[D].exists
  /\ file[D].data = ValidBody

(***************************************************************************)
(* The life of an in-flight entry.                                         *)
(***************************************************************************)

\* The fetch has failed, or was poisoned, and has settled.
FailedAndSettled(f) ==
  \/ fetches[f].st \in {"nostream", "threw"}
  \/ /\ fetches[f].st = "streaming"
     /\ fetches[f].upst = "error" \/ Poisoned(fetches, f)
     /\ Settled(fetches, f)

\* A request arrives when every fetch there has been has failed and
\* settled.
ArrivesAfterFailure(r) ==
  /\ reqs[r].pc = "idle"
  /\ reqs'[r].pc # "idle"
  /\ \E f \in Fetches : fetches[f].st # "unused"
  /\ \A f \in Fetches : fetches[f].st # "unused" => FailedAndSettled(f)

\* C18: the in-flight entry of D is there only while the fetch factory
\* runs, whatever the factory's outcome, so the map eventually holds no
\* entry for D; and a request for D that arrives after a failed or
\* poisoned fetch has settled misses the cache and starts a new fetch.
C18_NoRememberedFailure ==
  /\ [](\A d \in Digests :
          inFlightFetches[d] # 0 => fetches[inFlightFetches[d]].st = "resolving")
  /\ <>[](inFlightFetches[D] = 0)
  /\ [][\A r \in Reqs :
          ArrivesAfterFailure(r) =>
            /\ reqs'[r].path = "miss"
            /\ reqs'[r].f \in Fetches
            /\ fetches[reqs'[r].f].st = "unused"
            /\ fetches'[reqs'[r].f].st = "resolving"]_vars

\* A writer of a miss-path fetch has its file at <cache_dir>/<d>, and the
\* file is not both completely written and validated.
Unvalidated(d) ==
  \E f \in Fetches :
    /\ fetches[f].d = d
    /\ fetches[f].linked
    /\ ~(fetches[f].w = "closed" /\ fetches[f].valid = "true")

\* C19: checkCache(D) returns the file of a miss-path fetch only after the
\* cache write has completed and the digest has been validated: no request
\* that arrives while the file is being written, or before a failed
\* validation has purged it, is served as a cache hit.
C19_NoUnvalidatedHit ==
  [][\A r \in Reqs :
       (reqs[r].pc = "idle" /\ reqs'[r].path = "hit") => ~Unvalidated(reqs'[r].d)]_vars

\* The upstream body of the fetch is still streaming.
MidStream(f) ==
  /\ fetches[f].st = "streaming"
  /\ fetches[f].upst = "open"

\* C20: the in-flight entry of D exists from the first miss until the fetch
\* has finished: while the upstream body is still streaming the entry is
\* present, and a request for D that arrives mid-stream joins that fetch.
C20_InFlightLifecycle ==
  /\ [](\A f \in Fetches : MidStream(f) => inFlightFetches[fetches[f].d] = f)
  /\ [][\A r \in Reqs, f \in Fetches :
          (reqs[r].pc = "idle" /\ reqs'[r].pc # "idle" /\ MidStream(f)
             /\ reqs'[r].d = fetches[f].d /\ reqs'[r].status # 304)
          => (reqs'[r].path = "miss" /\ reqs'[r].f = f)]_vars

(***************************************************************************)
(* The cache writer and the validation of the digest.                      *)
(***************************************************************************)

\* The cache writer of the fetch has <cache_dir>/<d> open for writing.
WriterOpen(f) ==
  /\ fetches[f].st = "streaming"
  /\ fetches[f].w = "open"

\* C21: at any instant at most one streamed cache writer is open on
\* <cache_dir>/D: two fetches of the same digest never have their writers
\* open at the same time.
C21_SingleWriter ==
  \A f, g \in Fetches :
    (WriterOpen(f) /\ WriterOpen(g) /\ fetches[f].d = fetches[g].d) => f = g

\* The step at which validateHash() takes the digest of the fetch.
Finalizes(f) == ~fetches[f].digested /\ fetches'[f].digested

\* C22: hashValidation resolves only after cacheWrite has resolved, and
\* the hasher is finalized only after every byte of the upstream body has
\* passed through it: when the cache write ends early with an error while
\* the body is still arriving, the digest is not taken over a prefix.
C22_ValidationOrdering ==
  [][\A f \in Fetches :
       Finalizes(f) =>
         /\ fetches[f].cwDone
         /\ fetches[f].upst # "error" =>
              /\ fetches[f].upst = "eof"
              /\ fetches[f].hashed = Len(fetches[f].body)]_vars

\* The step at which hashValidation of the fetch resolves true.
ResolvesValid(f) == fetches[f].valid = "pending" /\ fetches'[f].valid = "true"

\* C23: whenever hashValidation of a fetch of D resolves true, the file
\* <cache_dir>/D exists and holds exactly the bytes whose digest is D, also
\* when the cache writer failed on a late chunk.
C23_ValidImpliesFile ==
  [][\A f \in Fetches :
       ResolvesValid(f) =>
         /\ file'[fetches[f].d].exists
         /\ HashOf(file'[fetches[f].d].data) = fetches[f].d]_vars

\* The step at which the upstream body of the fetch errors.
BodyErrors(f) == fetches[f].upst = "open" /\ fetches'[f].upst = "error"

\* C24: when the upstream body of a miss-path fetch errors before its end,
\* the partially written file <cache_dir>/D is deleted and there is no
\* metadata row for D, hashValidation does not resolve true, and no
\* subscriber of the fetch sees a clean end of its body.
C24_UpstreamError ==
  /\ [][\A f \in Fetches :
          BodyErrors(f) => /\ ~file'[fetches[f].d].exists
                           /\ ~meta'[fetches[f].d].present]_vars
  /\ [](\A f \in Fetches :
          fetches[f].upst = "error" =>
            /\ fetches[f].valid # "true"
            /\ \A r \in Reqs :
                 (reqs[r].path = "miss" /\ reqs[r].f = f /\ reqs[r].status = 200
                    /\ reqs[r].pc = "done")
                 => reqs[r].end = "error")

(***************************************************************************)
(* The deadline of an upstream fetch.                                      *)
(***************************************************************************)

\* The fetch is over: no stream, or a body received to its end, or a body
\* that was aborted.
FetchOver(f) ==
  \/ fetches[f].st = "nostream"
  \/ fetches[f].st = "streaming" /\ fetches[f].upst \in {"eof", "error"}

\* C25: every upstream fetch is bounded by the request deadline: when
\* more than REQUEST_TIMEOUT has passed since the fetch began, the fetch
\* is over, by the end of the body or by an abort that errors the stream,
\* also when the upstream stalls after it has sent its response headers.
C25_Deadline ==
  \A f \in Fetches : fetches[f].elapsed > RequestTimeout => FetchOver(f)

(***************************************************************************)
(* HEAD and Range on the miss path.                                        *)
(***************************************************************************)

\* A HEAD request that was answered on the miss path, from a stream.
HeadOnMiss(r) ==
  /\ reqs[r].method = "HEAD"
  /\ reqs[r].path = "miss"
  /\ reqs[r].pc = "done"
  /\ reqs[r].status = 200

RangeOf(r) ==
  LET body == fetches[reqs[r].f].body
      start == reqs[r].range[1]
      endByte == IF Len(reqs[r].range) = 2 THEN reqs[r].range[2]
                 ELSE Len(body) - 1
  IN SubSeq(body, start + 1, endByte + 1)

IsPrefix(s, t) == Len(s) <= Len(t) /\ s = SubSeq(t, 1, Len(s))

Unhonourable(r) ==
  /\ reqs[r].pc \notin {"idle", "wait"}
  /\ reqs[r].method = "GET"
  /\ reqs[r].rangeHeader # <<>>
  /\ \/ reqs[r].range = <<>>
     \/ reqs[r].path = "miss" /\ reqs[r].len = -1

\* C28: a GET whose Range header cannot be honoured as a byte range is
\* answered with status 200 and the full body, never with 206 or 416.
C28_RangeFallback ==
  \A r \in Reqs :
    Unhonourable(r) =>
      /\ reqs[r].status = 200
      /\ reqs[r].crange = <<>>
      /\ reqs[r].path = "hit" =>
           reqs[r].clength = reqs[r].len /\ Len(reqs[r].body) = reqs[r].len
      /\ (reqs[r].path = "miss" /\ reqs[r].pc = "done") =>
           reqs[r].end = "ok" /\ reqs[r].body = fetches[reqs[r].f].body

(***************************************************************************)
(* The redirects of an upstream server.                                    *)
(***************************************************************************)

\* C29: fetchFromServer returns no response that was obtained through a
\* redirect whose Location does not contain the requested digest.
C29_RedirectContainment ==
  \A f \in Fetches :
    fetches[f].proxy.result = "response" => ~fetches[f].proxy.swapped

\* C30: for one candidate fetchFromServer follows at most MAX_REDIRECTS
\* redirects.
C30_RedirectBound ==
  \A f \in Fetches : fetches[f].proxy.hops <= MAX_REDIRECTS

(***************************************************************************)
(* The candidates of one fetch.                                            *)
(***************************************************************************)

\* C31: within one miss-path fetch no upstream origin is contacted more
\* than once, also when a fallback server equals a hint or an author
\* server.
C31_CandidateDedup ==
  \A f \in Fetches :
    \A i, j \in 1..Len(fetches[f].contacted) :
      fetches[f].contacted[i] = fetches[f].contacted[j] => i = j

(***************************************************************************)
(* The metadata.                                                           *)
(***************************************************************************)

\* A cache hit on d whose updateAccessTime(d) finds the row.
HitTouch(d) ==
  /\ meta[d].present
  /\ \E r \in Reqs :
       reqs[r].pc = "idle" /\ reqs'[r].path = "hit" /\ reqs'[r].d = d

\* An updateAccessTime(d) that found no row has looked at the file.
StatTouch(d) == Len(touchStat'[d]) < Len(touchStat[d])

FileStatus(r) ==
  IF reqs[r].path = "hit" THEN 200
  ELSE IF fetches[reqs[r].f].st = "nostream" THEN 404 ELSE 200

\* C33: while every operation of the metadata database fails, GET and HEAD
\* are answered as the files and the upstream alone determine (no status
\* other than 200 and 404, the body of a GET 200 is the blob), the metadata
\* does not change and no step deletes a file.
C33_MetaFailIsolated ==
  /\ [](DbFails =>
          \A r \in Reqs :
            reqs[r].pc \in {"stream", "done"} =>
              /\ reqs[r].status = FileStatus(r)
              /\ (reqs[r].pc = "done" /\ reqs[r].status = 200) =>
                   reqs[r].body = IF reqs[r].method = "GET" THEN ValidBody
                                  ELSE <<>>)
  /\ [][DbFails =>
          /\ meta' = meta
          /\ \A d \in Digests : file[d].exists => file'[d].exists]_vars

\* With a failing database a request has been served from the cache and
\* a pruning check has returned without a run.
C33_Witness ==
  /\ DbFails
  /\ \E r \in Reqs :
       reqs[r].pc = "done" /\ reqs[r].path = "hit" /\ reqs[r].status = 200
  /\ \E i \in DOMAIN prunes : prunes[i].pc = "done"
  /\ \E d \in Digests : file[d].exists /\ Len(file[d].data) > maxCacheSize

\* Nothing is in progress: no request, fetch, purge, touch, upload or
\* prune run has a step left.
Quiescent ==
  /\ \A r \in Reqs : reqs[r].pc \in {"idle", "done"}
  /\ \A f \in Fetches :
       \/ fetches[f].st = "unused"
       \/ /\ fetches[f].cwDone
          /\ fetches[f].valid # "pending"
          /\ ~(fetches[f].purge = "armed" /\ fetches[f].valid = "false")
  /\ \A d \in Digests : touchStat[d] = <<>>
  /\ \A u \in DOMAIN uploads : uploads[u].pc \in {"idle", "skipped", "done"}
  /\ \A i \in DOMAIN prunes : prunes[i].pc = "done"

\* C34: in every quiescent state each row of cache_metadata has a file on
\* disk whose size is the size of the row.
C34_MetaMatchesDisk ==
  Quiescent =>
    \A d \in Digests :
      meta[d].present =>
        file[d].exists /\ Len(file[d].data) = meta[d].size

(***************************************************************************)
(* C35: among rows with the same last_accessed, pruneCache() evicts in     *)
(* ascending digest order: a prune call never deletes the file of a row    *)
(* while a row with the same last_accessed and a smaller digest is still   *)
(* there.                                                                  *)
(***************************************************************************)
C35_PruneTieBreak ==
  [][\A i \in DOMAIN prunes :
       PruneEvicts(i) =>
         LET d == prunes[i].rows[1].sha256
         IN \A e \in Digests :
              (meta[d].present /\ meta[e].present /\ meta[e].la = meta[d].la)
                => e >= d]_vars

(***************************************************************************)
(* C36: pruneCache() never deletes the file of a digest whose cache write  *)
(* is still in progress: at every file.delete() of a prune call, no fetch  *)
(* of that digest has its cache writer open on the file.                   *)
(***************************************************************************)
WriteInProgress(d) ==
  \E f \in Fetches :
    fetches[f].d = d /\ fetches[f].w = "open" /\ fetches[f].linked

C36_PruneSparesWriting ==
  [][\A i \in DOMAIN prunes :
       (prunes[i].pc = "unlink" /\ prunes'[i].pc = "forget")
         => ~WriteInProgress(prunes[i].rows[1].sha256)]_vars

(***************************************************************************)
(* C37: a GET or HEAD for D with a matching If-None-Match and no Range     *)
(* header is answered 304 at once, whatever the state of the cache and of  *)
(* the fetches, and the step changes nothing but the request itself: the   *)
(* cache directory, the metadata, the pending touches, the in-flight map   *)
(* and the fetches stay as they were.                                      *)
(***************************************************************************)
ArrivesMatching(r) ==
  /\ reqs[r].pc = "idle"
  /\ reqs'[r].pc # "idle"
  /\ reqs'[r].rangeHeader = <<>>
  /\ CheckIfNoneMatch(reqs'[r].inm, GenerateETag(reqs'[r].d))

C37_NotModifiedPure ==
  [][\A r \in Reqs :
       ArrivesMatching(r) =>
         /\ reqs'[r].pc = "done"
         /\ reqs'[r].status = 304
         /\ reqs'[r].body = <<>>
         /\ reqs'[r].f = 0
         /\ UNCHANGED <<file, meta, clock, touchStat, inFlightFetches, fetches,
                        prunes, startup>>]_vars

C37_Witness ==
  \E r \in Reqs :
    /\ reqs[r].status = 304
    /\ reqs[r].rangeHeader = <<>>
    /\ ~file[D].exists
    /\ inFlightFetches[D] = 0
    /\ \E f \in Fetches : fetches[f].st = "nostream"

(***************************************************************************)
(* C38: a fetch that ends with no stream answers 404 to its requests and   *)
(* leaves the files and the rows as they are, and no purge is ever run     *)
(* for it: whenever a file disappears, the step is the purge of a fetch    *)
(* that did stream a body.                                                 *)
(***************************************************************************)
EndsWithNoStream(f) ==
  fetches[f].st = "resolving" /\ fetches'[f].st = "nostream"

C38_NotFoundPurgesNothing ==
  [][/\ \A f \in Fetches :
          EndsWithNoStream(f) =>
            /\ UNCHANGED <<file, meta, touchStat>>
            /\ \A r \in Waiters(f) :
                 reqs'[r].pc = "done" /\ reqs'[r].status = 404
     /\ \A d \in Digests :
          (file[d].exists /\ ~file'[d].exists) =>
            \E g \in Fetches :
              /\ fetches[g].d = d
              /\ fetches[g].st # "nostream"
              /\ fetches[g].purge = "armed"
              /\ fetches'[g].purge = "done"]_vars

C38_Witness ==
  \E f \in Fetches :
    /\ fetches[f].st = "nostream"
    /\ reqs[fetches[f].creator].status = 404
    /\ \E u \in DOMAIN uploads :
         uploads[u].pc = "done" /\ uploads[u].hash = fetches[f].d
    /\ file[fetches[f].d].exists
    /\ meta[fetches[f].d].present
    /\ \A g \in Fetches : fetches[g].st \in {"unused", "nostream"}

(***************************************************************************)
(* C39: the purge that follows a failed hash validation deletes only the   *)
(* file of its own fetch: when it runs, the file of D is not one that a    *)
(* later fetch is writing, nor a file whose content hashes to D, written   *)
(* by a later fetch or by an upload.                                       *)
(***************************************************************************)
Purges(g) == fetches[g].purge = "armed" /\ fetches'[g].purge = "done"

C39_PurgeOwnFile ==
  [][\A g \in Fetches :
       Purges(g) =>
         LET d == fetches[g].d
         IN /\ ~(file[d].exists /\ HashOf(file[d].data) = d)
            /\ \A h \in Fetches \ {g} :
                 ~(fetches[h].d = d /\ fetches[h].w = "open"
                     /\ fetches[h].linked)]_vars

(***************************************************************************)
(* C40: a request that joins the in-flight fetch of D shares its outcome:  *)
(* it gets 404 when the fetch ends with no stream, and when the fetch      *)
(* streams it gets 200 with the Content-Length of the shared result.       *)
(***************************************************************************)
Joined(r) ==
  /\ reqs[r].path = "miss"
  /\ reqs[r].f \in Fetches
  /\ IF reqs[r].f \in Fetches THEN fetches[reqs[r].f].creator # r ELSE FALSE

C40_JoinShares ==
  \A r \in Reqs :
    IF Joined(r)
    THEN LET fr == fetches[reqs[r].f]
         IN /\ fr.st = "nostream" => reqs[r].status = 404
            /\ fr.st = "streaming" =>
                 /\ reqs[r].status = 200
                 /\ reqs[r].clength = IF fr.clen THEN Len(fr.body) ELSE -1
    ELSE TRUE

====
